---- MODULE Spec2Model ----
(***************************************************************************)
(* A model of stormevents/nhc/track.py: the VortexTrack store, the track   *)
(* partitioner (separate_tracks / combine_tracks), the velocity estimator, *)
(* the isotach and swath builders and the OFCL corrector.                  *)
(*                                                                         *)
(* A data frame is a sequence of rows (positional order); every row        *)
(* carries its index label in the field idx.  A Python dict is a sequence  *)
(* of [key, val] entries in insertion order.  Times are whole hours.       *)
(* A missing number (NaN / NA) is the value NaN.                           *)
(***************************************************************************)
EXTENDS Integers, Sequences, FiniteSets, TLC

VARIABLES
    data,      \* the data frame handed to the function under study
    arg,       \* its other argument (rmw_fill, wind_speed), or "-"
    tracks,    \* a {advisory: {cycle key: data frame}} dict, or <<>>
    out,       \* the value the last function returned
    pc,        \* which step of the function pipeline has run
    store,     \* the fields of one VortexTrack object
    op,        \* the last operation called on the store
    ret        \* what that operation returned ("raise" when it raised)

vars == <<data, arg, tracks, out, pc, store, op, ret>>

fnVars == <<data, arg, tracks, out, pc>>
storeVars == <<store, op, ret>>

-----------------------------------------------------------------------------
(* Bounds of the model.                                                    *)

MaxRows == 3
MaxTime == 1

(* pandas.NA / numpy.nan in a numeric column. *)
NaN == -1

-----------------------------------------------------------------------------
(* Sequences, dicts and data frames.                                       *)

Range(s) == {s[i] : i \in 1..Len(s)}

RECURSIVE Flatten(_)
Flatten(ss) ==
    IF ss = <<>> THEN <<>> ELSE Head(ss) \o Flatten(Tail(ss))

Column(df, f) == [i \in 1..Len(df) |-> df[i][f]]

(* pandas.unique: the distinct values in order of first appearance. *)
RECURSIVE Unique(_)
Unique(s) ==
    IF s = <<>> THEN <<>>
    ELSE LET front == Unique(SubSeq(s, 1, Len(s) - 1))
             last == s[Len(s)]
         IN  IF last \in Range(front) THEN front ELSE Append(front, last)

(* sort_values(f) / sort_index(): ascending, rows with equal keys keep      *)
(* their order (numpy sorts the short arrays of the model by insertion).    *)
RECURSIVE InsertByField(_, _, _)
InsertByField(s, r, f) ==
    IF s = <<>> THEN <<r>>
    ELSE IF s[Len(s)][f] <= r[f] THEN Append(s, r)
    ELSE Append(InsertByField(SubSeq(s, 1, Len(s) - 1), r, f), s[Len(s)])

RECURSIVE SortByField(_, _)
SortByField(s, f) ==
    IF s = <<>> THEN <<>>
    ELSE InsertByField(SortByField(SubSeq(s, 1, Len(s) - 1), f), s[Len(s)], f)

DictKeys(d) == [i \in 1..Len(d) |-> d[i].key]

DictValues(d) == [i \in 1..Len(d) |-> d[i].val]

DictHas(d, k) == \E i \in 1..Len(d) : d[i].key = k

DictGet(d, k) == d[CHOOSE i \in 1..Len(d) : d[i].key = k].val

(* d[k] = v: a new key goes last, an old key keeps its place. *)
DictPut(d, k, v) ==
    IF DictHas(d, k)
    THEN [i \in 1..Len(d) |-> IF d[i].key = k THEN [key |-> k, val |-> v] ELSE d[i]]
    ELSE Append(d, [key |-> k, val |-> v])

(* How often row r occurs in df. *)
Count(df, r) == Cardinality({i \in 1..Len(df) : df[i] = r})

SameRows(a, b) == \A r \in Range(a) \cup Range(b) : Count(a, r) = Count(b, r)

-----------------------------------------------------------------------------
(* Floating-point values that the code computes by division are fractions  *)
(* <<numerator, denominator>> in lowest terms with denominator >= 0:       *)
(* <<0, 0>> is NaN, <<1, 0>> is inf and <<-1, 0>> is -inf.                 *)

RECURSIVE GCD(_, _)
GCD(a, b) == IF b = 0 THEN a ELSE GCD(b, a % b)

Sign(x) == IF x < 0 THEN -1 ELSE IF x > 0 THEN 1 ELSE 0

Fraction(n, d) ==
    IF d = 0 THEN <<Sign(n), 0>>
    ELSE LET g == GCD(IF n < 0 THEN -n ELSE n, IF d < 0 THEN -d ELSE d)
         IN  <<(Sign(d) * n) \div g, (Sign(d) * d) \div g>>

NaNSpeed == <<0, 0>>

IsNaN(a) == a = <<0, 0>>

(* An integer column value as a fraction. *)
ToFraction(x) == IF x = NaN THEN <<0, 0>> ELSE <<x, 1>>

Divide(num, den) == Fraction(num, den)

FracNeg(a) == <<-a[1], a[2]>>

FracAdd(a, b) ==
    IF IsNaN(a) \/ IsNaN(b) THEN <<0, 0>>
    ELSE IF a[2] = 0 /\ b[2] = 0 THEN (IF a = b THEN a ELSE <<0, 0>>)
    ELSE Fraction(a[1] * b[2] + b[1] * a[2], a[2] * b[2])

FracMul(a, b) ==
    IF IsNaN(a) \/ IsNaN(b) THEN <<0, 0>>
    ELSE Fraction(a[1] * b[1], a[2] * b[2])

FracDiv(a, b) ==
    IF IsNaN(a) \/ IsNaN(b) THEN <<0, 0>>
    ELSE IF a[2] = 0 /\ b[2] # 0 THEN <<a[1] * (IF b[1] < 0 THEN -1 ELSE 1), 0>>
    ELSE Fraction(a[1] * b[2], a[2] * b[1])

RECURSIVE FracSum(_)
FracSum(s) == IF s = <<>> THEN <<0, 1>> ELSE FracAdd(Head(s), FracSum(Tail(s)))

(* numpy.nanmean: the mean of the values that are not NaN. *)
NanMean(s) ==
    LET kept == SelectSeq(s, LAMBDA a : ~IsNaN(a))
    IN  IF kept = <<>> THEN <<0, 0>>
        ELSE FracDiv(FracSum(kept), <<Len(kept), 1>>)

-----------------------------------------------------------------------------
(* Records of the canonical table.                                         *)

BlankRow ==
    [idx |-> 0, storm |-> "AL01", advisory |-> "BEST", track_start_time |-> 0,
     forecast_hours |-> 0, datetime |-> 0,
     longitude |-> 0, geometry |-> 0,
     speed |-> <<0, 0>>, direction |-> NaN,
     max_sustained_wind_speed |-> NaN, central_pressure |-> <<0, 0>>,
     background_pressure |-> NaN, radius_of_maximum_winds |-> NaN,
     isotach_radius |-> NaN,
     isotach_radius_for_NEQ |-> NaN, isotach_radius_for_SEQ |-> NaN,
     isotach_radius_for_SWQ |-> NaN, isotach_radius_for_NWQ |-> NaN]

(* A key that keeps the date only: the cycles of one day collide. *)
FormatTimeDateOnly(t) == <<t \div 24>>

(* f"{t:%Y%m%dT%H%M%S}": the date, hour, minute and second of a time. *)
FormatTime(t) == <<t \div 24, t % 24, 0, 0>>

-----------------------------------------------------------------------------
(* separate_tracks and combine_tracks.                                     *)

AdvisoryData(df, advisory) ==
    LET advisory_data == SelectSeq(df, LAMBDA r : r.advisory = advisory)
    IN  IF advisory = "BEST" THEN SortByField(advisory_data, "datetime")
        ELSE advisory_data

TrackData(advisory_data, advisory, track_start_time) ==
    IF advisory = "BEST" THEN advisory_data
    ELSE SortByField(
             SelectSeq(advisory_data,
                        LAMBDA r : r.track_start_time = track_start_time),
             "idx")

RECURSIVE AdvisoryTracks(_, _, _)
AdvisoryTracks(advisory_data, advisory, track_start_times) ==
    IF track_start_times = <<>> THEN <<>>
    ELSE LET n == Len(track_start_times)
             t == track_start_times[n]
         IN  DictPut(AdvisoryTracks(advisory_data, advisory,
                                    SubSeq(track_start_times, 1, n - 1)),
                     FormatTime(t), TrackData(advisory_data, advisory, t))

RECURSIVE SeparateAdvisories(_, _)
SeparateAdvisories(df, advisories) ==
    IF advisories = <<>> THEN <<>>
    ELSE LET n == Len(advisories)
             advisory == advisories[n]
             advisory_data == AdvisoryData(df, advisory)
         IN  DictPut(SeparateAdvisories(df, SubSeq(advisories, 1, n - 1)),
                     advisory,
                     AdvisoryTracks(advisory_data, advisory,
                                    Unique(Column(advisory_data,
                                                  "track_start_time"))))

separate_tracks(df) == SeparateAdvisories(df, Unique(Column(df, "advisory")))

(* All the data frames of a tracks dict, in dict order. *)
TrackList(t) == Flatten([i \in 1..Len(t) |-> DictValues(t[i].val)])

combine_tracks(t) == Flatten(TrackList(t))

-----------------------------------------------------------------------------
(* The velocity estimator, VortexTrack.__compute_velocity.                 *)
(*                                                                         *)
(* Positions lie on the equator, one unit of longitude apart; a speed is   *)
(* the fraction <<distance, seconds>> in lowest terms, so that <<0, 0>> is *)
(* NaN (0 / 0) and <<1, 0>> is inf (a distance over no time).              *)

Abs(x) == IF x < 0 THEN -x ELSE x

(* Geod.inv(lon1, lat1, lon2, lat2): the azimuth from point 1 to point 2,  *)
(* the back azimuth at point 2 and the distance (0 and 180 for one point). *)
GeodInv(lon1, lon2) ==
    [forward |-> IF lon2 > lon1 THEN 90 ELSE IF lon2 < lon1 THEN -90 ELSE 0,
     inverse |-> IF lon2 > lon1 THEN -90 ELSE IF lon2 < lon1 THEN 90 ELSE 180,
     distance |-> Abs(lon2 - lon1)]

SetMin(S) == CHOOSE x \in S : \A y \in S : x <= y

SetMax(S) == CHOOSE x \in S : \A y \in S : y <= x

(* The position, in the advisory's rows, of each row's reference record. *)
ShiftedIndices(advisory_data) ==
    [k \in 1..Len(advisory_data) |->
        LET prev == IF k = 1 THEN 1 ELSE k - 1
            this_time == advisory_data[k].datetime
            shift_time == advisory_data[prev].datetime
            earlier == {j \in 1..Len(advisory_data) :
                            advisory_data[j].datetime < this_time}
            later == {j \in 1..Len(advisory_data) :
                          advisory_data[j].datetime > this_time}
        IN  IF shift_time > this_time
            THEN IF earlier = {} THEN SetMin(later) ELSE SetMax(earlier)
            ELSE prev]

(* ffill / bfill of a series whose missing value is null. *)
RECURSIVE FFill(_, _)
FFill(s, null) ==
    IF s = <<>> THEN <<>>
    ELSE LET n == Len(s)
             front == FFill(SubSeq(s, 1, n - 1), null)
         IN  Append(front, IF s[n] = null /\ n > 1 THEN front[n - 1] ELSE s[n])

RECURSIVE BFill(_, _)
BFill(s, null) ==
    IF s = <<>> THEN <<>>
    ELSE LET back == BFill(Tail(s), null)
         IN  <<IF Head(s) = null /\ back # <<>> THEN Head(back) ELSE Head(s)>>
                 \o back

AdvisorySpeeds(advisory_data) ==
    LET shifted == ShiftedIndices(advisory_data)
        speeds == [k \in 1..Len(advisory_data) |->
            Divide(GeodInv(advisory_data[k].longitude,
                           advisory_data[shifted[k]].longitude).distance,
                   Abs(advisory_data[k].datetime
                           - advisory_data[shifted[k]].datetime) * 3600)]
    IN  BFill(FFill(speeds, NaNSpeed), NaNSpeed)

AdvisoryBearings(advisory_data) ==
    LET shifted == ShiftedIndices(advisory_data)
        bearings == [k \in 1..Len(advisory_data) |->
            LET geod == GeodInv(advisory_data[k].longitude,
                                advisory_data[shifted[k]].longitude)
                interval == advisory_data[k].datetime
                                - advisory_data[shifted[k]].datetime
            IN  IF Divide(geod.distance, Abs(interval) * 3600) = NaNSpeed
                THEN NaN
                ELSE IF interval < 0 THEN geod.forward % 360
                ELSE geod.inverse % 360]
    IN  BFill(FFill(bearings, NaN), NaN)

compute_velocity(df) ==
    [i \in 1..Len(df) |->
        LET advisory_data ==
                SelectSeq(df, LAMBDA r : r.advisory = df[i].advisory)
            k == Cardinality({j \in 1..i : df[j].advisory = df[i].advisory})
        IN  [df[i] EXCEPT !.speed = AdvisorySpeeds(advisory_data)[k],
                          !.direction = AdvisoryBearings(advisory_data)[k]]]

-----------------------------------------------------------------------------
(* HollandBRelation, in units of rho * e (the same rho in every call).     *)

holland_b(max_sustained_wind_speed, background_pressure, central_pressure) ==
    FracDiv(FracMul(max_sustained_wind_speed, max_sustained_wind_speed),
            FracAdd(background_pressure, FracNeg(central_pressure)))

(* A relation that adds the pressure deficit to the background pressure. *)
central_pressure_above(max_sustained_wind_speed, background_pressure, hollandB) ==
    FracAdd(FracDiv(FracMul(max_sustained_wind_speed, max_sustained_wind_speed),
                    hollandB),
            background_pressure)

central_pressure(max_sustained_wind_speed, background_pressure, hollandB) ==
    FracAdd(FracDiv(FracNeg(FracMul(max_sustained_wind_speed,
                                    max_sustained_wind_speed)),
                    hollandB),
            background_pressure)

-----------------------------------------------------------------------------
(* correct_ofcl_based_on_carq_n_hollandb.                                  *)

(* The CARQ track an OFCL track is corrected with. *)
CarqForecast(carq_tracks, initial_time) ==
    IF DictHas(carq_tracks, initial_time) THEN DictGet(carq_tracks, initial_time)
    ELSE carq_tracks[1].val

MeanHollandB(carq_forecast) ==
    LET b == [i \in 1..Len(carq_forecast) |->
                 holland_b(ToFraction(carq_forecast[i].max_sustained_wind_speed),
                           ToFraction(carq_forecast[i].background_pressure),
                           carq_forecast[i].central_pressure)]
    IN  NanMean([i \in 1..Len(b) |-> IF b[i] = <<1, 0>> THEN <<0, 0>> ELSE b[i]])

ZeroHour(carq_forecast) == SelectSeq(carq_forecast, LAMBDA r : r.forecast_hours = 0)

(* carq_forecast.loc[forecast_hours == 0].iloc[0] *)
CarqRef(carq_forecast) == ZeroHour(carq_forecast)[1]

mrd_missing(r) ==
    r.radius_of_maximum_winds = 0 \/ r.radius_of_maximum_winds = NaN

mslp_missing(r) == r.central_pressure = <<0, 1>> \/ IsNaN(r.central_pressure)

radp_missing(r) == r.background_pressure = 0 \/ r.background_pressure = NaN

(* A fill that takes null for missing and forgets that 0 is missing too. *)
FillRMWNullOnly(r, carq_ref, rmw_fill) ==
    IF rmw_fill = "persistent" /\ r.radius_of_maximum_winds = NaN
    THEN [r EXCEPT !.radius_of_maximum_winds = carq_ref.radius_of_maximum_winds]
    ELSE r

FillRMW(r, carq_ref, rmw_fill) ==
    IF rmw_fill = "persistent" /\ mrd_missing(r)
    THEN [r EXCEPT !.radius_of_maximum_winds = carq_ref.radius_of_maximum_winds]
    ELSE r

(* Python's min and max of two floats: the second argument when the       *)
(* comparison with the first holds, the first otherwise (a comparison with *)
(* NaN does not hold).                                                     *)
PyMin(a, b) == IF a # NaN /\ b # NaN /\ b < a THEN b ELSE a

PyMax(a, b) == IF a # NaN /\ b # NaN /\ b > a THEN b ELSE a

(* A clamp without the lower limit. *)
clamp_above(n, minn, maxn) == PyMin(maxn, n)

clamp(n, minn, maxn) == PyMax(PyMin(maxn, n), minn)

(* The value the regression of Penny et al. (2023) gives for a lead hour   *)
(* of 12 or more: an input of the run, as the coefficient and bias tables  *)
(* are data outside this file.                                             *)
rmw_(fcst_hr, rmw0) == IF fcst_hr < 12 THEN rmw0 ELSE arg.regression

(* The regression policies write every record of a lead hour at which some *)
(* record has no RMW.                                                      *)
FillRMWRegression(forecast, carq_ref) ==
    LET rmw0 == carq_ref.radius_of_maximum_winds
        fcst_hrs == {forecast[i].forecast_hours :
                        i \in {j \in 1..Len(forecast) : mrd_missing(forecast[j])}}
    IN  [i \in 1..Len(forecast) |->
            IF forecast[i].forecast_hours \in fcst_hrs
            THEN [forecast[i] EXCEPT !.radius_of_maximum_winds =
                      clamp(rmw_(forecast[i].forecast_hours, rmw0), 5,
                            PyMax(120, rmw0))]
            ELSE forecast[i]]

FillBackgroundPressure(r, was, carq_ref) ==
    IF radp_missing(was)
    THEN [r EXCEPT !.background_pressure = carq_ref.background_pressure]
    ELSE r

(* A fill that computes the central pressure from the background pressure *)
(* the record had before the background pressure was filled.               *)
FillCentralPressureFirst(r, was, hollandB) ==
    IF mslp_missing(was)
    THEN [r EXCEPT !.central_pressure =
              central_pressure(ToFraction(r.max_sustained_wind_speed),
                               ToFraction(was.background_pressure), hollandB)]
    ELSE r

FillCentralPressure(r, was, hollandB) ==
    IF mslp_missing(was)
    THEN [r EXCEPT !.central_pressure =
              central_pressure(ToFraction(r.max_sustained_wind_speed),
                               ToFraction(r.background_pressure), hollandB)]
    ELSE r

CorrectForecast(forecast, carq_forecast, rmw_fill) ==
    LET filled == IF rmw_fill = "regression_penny_2023_no_smoothing"
                  THEN FillRMWRegression(forecast, CarqRef(carq_forecast))
                  ELSE [i \in 1..Len(forecast) |->
                           FillRMW(forecast[i], CarqRef(carq_forecast), rmw_fill)]
    IN  [i \in 1..Len(forecast) |->
            FillCentralPressure(
                FillBackgroundPressure(filled[i], forecast[i],
                                       CarqRef(carq_forecast)),
                forecast[i], MeanHollandB(carq_forecast))]

(* .iloc[0] of an empty selection raises IndexError. *)
CorrectionRaises(t) ==
    \E c \in 1..Len(DictGet(t, "OFCL")) :
        ZeroHour(CarqForecast(DictGet(t, "CARQ"),
                              DictGet(t, "OFCL")[c].key)) = <<>>

(* A corrector that returns the corrected OFCL tracks and no other. *)
correct_ofcl_alone(t, rmw_fill) ==
    <<[key |-> "OFCL",
       val |-> [c \in 1..Len(DictGet(t, "OFCL")) |->
                   [key |-> DictGet(t, "OFCL")[c].key,
                    val |-> CorrectForecast(
                                DictGet(t, "OFCL")[c].val,
                                CarqForecast(DictGet(t, "CARQ"),
                                             DictGet(t, "OFCL")[c].key),
                                rmw_fill)]]]>>

correct_ofcl_based_on_carq_n_hollandb(t, rmw_fill) ==
    LET ofcl_tracks == DictGet(t, "OFCL")
        carq_tracks == DictGet(t, "CARQ")
        corr_ofcl_tracks ==
            [c \in 1..Len(ofcl_tracks) |->
                [key |-> ofcl_tracks[c].key,
                 val |-> CorrectForecast(ofcl_tracks[c].val,
                                         CarqForecast(carq_tracks,
                                                      ofcl_tracks[c].key),
                                         rmw_fill)]]
    IN  DictPut(t, "OFCL", corr_ofcl_tracks)

-----------------------------------------------------------------------------
(* The setter of VortexTrack.unfiltered_data, as a function of the fields  *)
(* it reads: what it stores, and whether it raises instead.                *)

CorrectionApplies(advisories, dataframe) ==
    /\ "OFCL" \in Range(advisories)
    /\ DictHas(separate_tracks(dataframe), "OFCL")
    /\ DictHas(separate_tracks(dataframe), "CARQ")

SetterRaises(advisories, dataframe) ==
    /\ CorrectionApplies(advisories, dataframe)
    /\ CorrectionRaises(separate_tracks(dataframe))

(* A setter that reassembles the table from its tracks in every case. *)
SetterStoresReassembled(advisories, rmw_fill, advisories_to_remove, dataframe) ==
    LET corrected ==
            IF CorrectionApplies(advisories, dataframe)
            THEN combine_tracks(
                     correct_ofcl_based_on_carq_n_hollandb(
                         separate_tracks(dataframe), rmw_fill))
            ELSE combine_tracks(separate_tracks(dataframe))
    IN  IF Len(advisories_to_remove) > 0
        THEN SelectSeq(corrected,
                        LAMBDA r : r.advisory \notin Range(advisories_to_remove))
        ELSE corrected

SetterStores(advisories, rmw_fill, advisories_to_remove, dataframe) ==
    LET corrected ==
            IF CorrectionApplies(advisories, dataframe)
            THEN combine_tracks(
                     correct_ofcl_based_on_carq_n_hollandb(
                         separate_tracks(dataframe), rmw_fill))
            ELSE dataframe
    IN  IF Len(advisories_to_remove) > 0
        THEN SelectSeq(corrected,
                        LAMBDA r : r.advisory \notin Range(advisories_to_remove))
        ELSE corrected

-----------------------------------------------------------------------------
(* VortexTrack.isotachs and VortexTrack.wind_swaths, from the view table   *)
(* on.  A quadrant polygon is the sector it covers (centre, radius in      *)
(* meters, first and last bearing); unary_union of polygons is the set of  *)
(* them, and the convex hull of a union is the record [hull |-> union].    *)

(* A set of wind speeds that lets 40 knots pass. *)
ValidIsotachValuesWide == {34, 40, 50, 64}

(* valid_isotach_values *)
ValidIsotachValues == {34, 50, 64}

quadrant_names ==
    <<"isotach_radius_for_NEQ", "isotach_radius_for_SEQ",
      "isotach_radius_for_SWQ", "isotach_radius_for_NWQ">>

(* data[quadrant_names] *= 1852.0 *)
ToMeters(radius) == IF radius = NaN THEN NaN ELSE radius * 1852

RotationAngle(row) == IF row.direction = NaN THEN NaN ELSE 360 - row.direction

Turn(angle, by) == IF angle = NaN THEN NaN ELSE angle + by

(* A quadrant builder that draws every quadrant whose radius is not       *)
(* missing, zero radii included.                                           *)
RECURSIVE QuadrantsAnyRadius(_, _, _)
QuadrantsAnyRadius(row, k, start_angle) ==
    IF k > Len(quadrant_names) THEN <<>>
    ELSE LET radius == ToMeters(row[quadrant_names[k]])
         IN  IF radius # NaN
             THEN <<[center |-> row.longitude, radius |-> radius,
                     start |-> start_angle, end |-> Turn(start_angle, 90)]>>
                      \o QuadrantsAnyRadius(row, k + 1, Turn(start_angle, 90))
             ELSE QuadrantsAnyRadius(row, k + 1, start_angle)

(* The polygons of the quadrants k..4 of a record, the next quadrant to be *)
(* drawn starting at start_angle.                                          *)
RECURSIVE Quadrants(_, _, _)
Quadrants(row, k, start_angle) ==
    IF k > Len(quadrant_names) THEN <<>>
    ELSE LET radius == ToMeters(row[quadrant_names[k]])
         IN  IF radius # NaN /\ radius > 1
             THEN <<[center |-> row.longitude, radius |-> radius,
                     start |-> start_angle, end |-> Turn(start_angle, 90)]>>
                      \o Quadrants(row, k + 1, Turn(start_angle, 90))
             ELSE Quadrants(row, k + 1, start_angle)

(* f'{row["datetime"]}:%Y%m%dT%H%M%S': the time as str() prints it, and    *)
(* the text after the closing brace.                                       *)
IsotachKey(t) == <<t \div 24, t % 24, 0, 0, ":%Y%m%dT%H%M%S">>

RECURSIVE TrackIsotachs(_)
TrackIsotachs(track_data) ==
    IF track_data = <<>> THEN <<>>
    ELSE LET n == Len(track_data)
             row == track_data[n]
             before == TrackIsotachs(SubSeq(track_data, 1, n - 1))
             quadrants == Quadrants(row, 1, Turn(RotationAngle(row), 0))
         IN  IF Len(quadrants) > 0
             THEN DictPut(before, IsotachKey(row.datetime), Range(quadrants))
             ELSE before

RECURSIVE AdvisoryIsotachs(_)
AdvisoryIsotachs(advisory_tracks) ==
    IF advisory_tracks = <<>> THEN <<>>
    ELSE LET n == Len(advisory_tracks)
             before == AdvisoryIsotachs(SubSeq(advisory_tracks, 1, n - 1))
             track_isotachs == TrackIsotachs(advisory_tracks[n].val)
         IN  IF Len(track_isotachs) > 0
             THEN DictPut(before, advisory_tracks[n].key, track_isotachs)
             ELSE before

RECURSIVE AllIsotachs(_)
AllIsotachs(t) ==
    IF t = <<>> THEN <<>>
    ELSE LET n == Len(t)
             before == AllIsotachs(SubSeq(t, 1, n - 1))
             advisory_isotachs == AdvisoryIsotachs(t[n].val)
         IN  IF Len(advisory_isotachs) > 0
             THEN DictPut(before, t[n].key, advisory_isotachs)
             ELSE before

(* isotachs(wind_speed) of a view table, for a valid wind speed. *)
Isotachs(view, wind_speed) ==
    AllIsotachs(separate_tracks(
        SelectSeq(view, LAMBDA r : r.isotach_radius = wind_speed)))

ConvexHull(polygons) == [hull |-> polygons]

(* One hull around all the isotachs of a track. *)
convex_hulls_of_all(track_isotachs) ==
    [index \in 1..(IF Len(track_isotachs) > 0 THEN 1 ELSE 0) |->
        ConvexHull(UNION Range(DictValues(track_isotachs)))]

(* The hulls of the consecutive pairs of a track's isotachs. *)
convex_hulls(track_isotachs) ==
    [index \in 1..Len(track_isotachs) - 1 |->
        ConvexHull(track_isotachs[index].val \cup track_isotachs[index + 1].val)]

RECURSIVE AdvisoryWindSwaths(_)
AdvisoryWindSwaths(advisory_isotachs) ==
    IF advisory_isotachs = <<>> THEN <<>>
    ELSE LET n == Len(advisory_isotachs)
             before == AdvisoryWindSwaths(SubSeq(advisory_isotachs, 1, n - 1))
             hulls == convex_hulls(advisory_isotachs[n].val)
         IN  IF Len(hulls) > 0
             THEN DictPut(before, advisory_isotachs[n].key, Range(hulls))
             ELSE before

(* wind_swaths(wind_speed), from the isotachs on. *)
WindSwaths(isotachs) ==
    [a \in 1..Len(isotachs) |->
        [key |-> isotachs[a].key, val |-> AdvisoryWindSwaths(isotachs[a].val)]]

-----------------------------------------------------------------------------
(* Canonical tables the functions are applied to.                          *)

Times == 0..MaxTime

(* One record of a forecast advisory: valid time = cycle time + lead hour. *)
ForecastRow(advisory, t, h) ==
    [BlankRow EXCEPT !.advisory = advisory, !.track_start_time = t,
                     !.forecast_hours = h, !.datetime = t + h]

BestRow(t) == [BlankRow EXCEPT !.advisory = "BEST", !.datetime = t]

PartitionRows ==
    {BestRow(t) : t \in Times}
        \cup {ForecastRow("OFCL", t, h) : t \in Times, h \in Times}

Frames(rows) == UNION {[1..n -> rows] : n \in 1..MaxRows}

(* The index labels 0..n-1 in row order, or in the reverse order. *)
WithIndex(df, reversed) ==
    [i \in 1..Len(df) |->
        [df[i] EXCEPT !.idx = IF reversed THEN Len(df) - i ELSE i - 1]]

(* All BEST records share the earliest BEST valid time as their start. *)
BestStart(df) ==
    LET best == {i \in 1..Len(df) : df[i].advisory = "BEST"}
        first == CHOOSE t \in {df[i].datetime : i \in best} :
                     \A i \in best : t <= df[i].datetime
    IN  [i \in 1..Len(df) |->
            IF i \in best THEN [df[i] EXCEPT !.track_start_time = first]
            ELSE df[i]]

IdleStore == [state |-> "idle"]

-----------------------------------------------------------------------------
(* The partitioner applied to a canonical table.                           *)

InitTracks ==
    /\ \E df \in Frames(PartitionRows), reversed \in BOOLEAN :
           data = BestStart(WithIndex(df, reversed))
    /\ arg = "-"
    /\ tracks = <<>>
    /\ out = <<>>
    /\ pc = "start"
    /\ store = IdleStore
    /\ op = "-"
    /\ ret = "-"

SeparateTracks ==
    /\ pc = "start"
    /\ tracks' = separate_tracks(data)
    /\ pc' = "separated"
    /\ UNCHANGED <<data, arg, out, storeVars>>

CombineTracks ==
    /\ pc \in {"separated", "corrected"}
    /\ out' = combine_tracks(tracks)
    /\ pc' = "combined"
    /\ UNCHANGED <<data, arg, tracks, storeVars>>

NextTracks == SeparateTracks \/ CombineTracks

SpecTracks == InitTracks /\ [][NextTracks]_vars

(* C1: for every canonical table T, combine_tracks(separate_tracks(T))     *)
(* holds exactly the rows of T as a multiset: none dropped, none doubled.  *)
RoundTrip == pc = "combined" => SameRows(out, data)

(* A table with a BEST record and two forecast cycles has been separated   *)
(* and combined again.                                                     *)
RoundTripReached ==
    /\ pc = "combined"
    /\ \E i \in 1..Len(data) : data[i].advisory = "BEST"
    /\ Cardinality({data[i].track_start_time :
                       i \in {j \in 1..Len(data) : data[j].advisory = "OFCL"}})
           = 2

NonDecreasing(s) == \A i \in 1..Len(s) - 1 : s[i] <= s[i + 1]

(* C2: in the result of separate_tracks every Track of a non-BEST advisory *)
(* is in non-decreasing lead-hour order and every BEST Track is in         *)
(* non-decreasing valid-time order, whatever the order of the input rows.  *)
TracksOrdered ==
    pc = "separated" =>
        \A a \in 1..Len(tracks) : \A c \in 1..Len(tracks[a].val) :
            LET track == tracks[a].val[c].val
            IN  IF tracks[a].key = "BEST"
                THEN NonDecreasing(Column(track, "datetime"))
                ELSE NonDecreasing(Column(track, "forecast_hours"))

-----------------------------------------------------------------------------
(* The velocity estimator applied to a set of records.                     *)

MaxVelRows == 3
MaxVelTime == 2

Longitudes == {0, 1}

VelocityRows ==
    {[BlankRow EXCEPT !.advisory = a, !.track_start_time = t, !.datetime = t,
                      !.longitude = x, !.geometry = x] :
         a \in {"OFCL", "CARQ"}, t \in 0..MaxVelTime, x \in Longitudes}

InitVelocity ==
    /\ \E n \in 1..MaxVelRows : \E df \in [1..n -> VelocityRows] :
           data = WithIndex(df, FALSE)
    /\ arg = "-"
    /\ tracks = <<>>
    /\ out = <<>>
    /\ pc = "start"
    /\ store = IdleStore
    /\ op = "-"
    /\ ret = "-"

ComputeVelocity ==
    /\ pc = "start"
    /\ out' = compute_velocity(data)
    /\ pc' = "velocity"
    /\ UNCHANGED <<data, arg, tracks, storeVars>>

NextVelocity == ComputeVelocity

SpecVelocity == InitVelocity /\ [][NextVelocity]_vars

(* C3: after the velocity estimator every record has a non-null speed >= 0 *)
(* and a non-null direction with 0 <= direction < 360, and the record of a *)
(* single-record advisory has speed 0.                                     *)
VelocityDefined ==
    pc = "velocity" =>
        \A i \in 1..Len(out) :
            /\ out[i].speed # NaNSpeed
            /\ out[i].speed[1] >= 0
            /\ out[i].direction # NaN
            /\ out[i].direction >= 0 /\ out[i].direction < 360
            /\ Count(Column(out, "advisory"), out[i].advisory) = 1
                   => out[i].speed[1] = 0 /\ out[i].speed[2] > 0

(* C16: the reference record of a record is the previous record of its     *)
(* advisory; when that one's valid time is after the record's, it is the   *)
(* record with the nearest valid time among those with a smaller valid     *)
(* time or, if there is none, among those with a larger valid time.        *)
NearestReference ==
    pc = "velocity" =>
        \A a \in {"OFCL", "CARQ"} :
            LET advisory_data == SelectSeq(data, LAMBDA r : r.advisory = a)
                times == Column(advisory_data, "datetime")
                shifted == ShiftedIndices(advisory_data)
            IN  \A k \in 1..Len(times) :
                    LET prev == IF k = 1 THEN 1 ELSE k - 1
                        smaller == {t \in Range(times) : t < times[k]}
                        larger == {t \in Range(times) : t > times[k]}
                    IN  IF times[prev] > times[k]
                        THEN times[shifted[k]] =
                                 IF smaller # {} THEN SetMax(smaller)
                                 ELSE SetMin(larger)
                        ELSE shifted[k] = prev

-----------------------------------------------------------------------------
(* The corrector and the setter applied to tables of OFCL and CARQ         *)
(* records.                                                                *)

MaxCorrRows == 3

Cycles == {0, 1}

LaterCycle == 2

OfclRow(t, h, rmw, pres, pbg) ==
    [ForecastRow("OFCL", t, h) EXCEPT
        !.max_sustained_wind_speed = 40, !.radius_of_maximum_winds = rmw,
        !.central_pressure = pres, !.background_pressure = pbg]

(* A 0-hour record with every field, 24-hour records with the fields null  *)
(* or zero, and a 0-hour record with a zero background pressure; one more *)
(* such record of a later cycle, which has no CARQ record.                 *)
OfclRows ==
    UNION {{OfclRow(t, 0, 20, <<980, 1>>, 1010),
            OfclRow(t, 24, NaN, <<0, 0>>, NaN),
            OfclRow(t, 24, 0, <<0, 1>>, 1010),
            OfclRow(t, 0, 20, <<980, 1>>, 0)} : t \in Cycles}
        \cup {OfclRow(LaterCycle, 0, NaN, <<980, 1>>, 0)}

(* The 0-hour CARQ record of cycle t has RMW 15 + 135 t; the record six    *)
(* hours before has background pressure = central pressure.                *)
CarqRows ==
    UNION {{[ForecastRow("CARQ", t, 0) EXCEPT
                !.max_sustained_wind_speed = 50,
                !.radius_of_maximum_winds = 15 + 135 * t,
                !.central_pressure = <<990, 1>>,
                !.background_pressure = 1012 + t],
            [ForecastRow("CARQ", t, -6) EXCEPT
                !.max_sustained_wind_speed = 45,
                !.radius_of_maximum_winds = 40,
                !.central_pressure = <<1000, 1>>,
                !.background_pressure = 1000]} : t \in Cycles}

(* What the regression gives: nothing, less than the lower limit, a value *)
(* between the limits, and more than either upper limit.                   *)
RegressionValues == {NaN, 2, 60, 200}

SetterArgs ==
    {[rmw_fill |-> "persistent", advisories |-> <<"OFCL", "CARQ">>,
      remove |-> <<>>, regression |-> NaN],
     [rmw_fill |-> "none", advisories |-> <<"OFCL", "CARQ">>,
      remove |-> <<>>, regression |-> NaN],
     [rmw_fill |-> "persistent", advisories |-> <<"OFCL">>,
      remove |-> <<"CARQ">>, regression |-> NaN],
     [rmw_fill |-> "persistent", advisories |-> <<"CARQ">>,
      remove |-> <<>>, regression |-> NaN]}
        \cup {[rmw_fill |-> "regression_penny_2023_no_smoothing",
               advisories |-> <<"OFCL", "CARQ">>, remove |-> <<>>,
               regression |-> v] : v \in RegressionValues}

InitCorrector ==
    /\ \E n \in 1..MaxCorrRows : \E df \in [1..n -> OfclRows \cup CarqRows] :
           data = WithIndex(df, FALSE)
    /\ arg \in SetterArgs
    /\ tracks = <<>>
    /\ out = <<>>
    /\ pc = "start"
    /\ store = IdleStore
    /\ op = "-"
    /\ ret = "-"

CorrectTracks ==
    /\ pc = "separated"
    /\ DictHas(tracks, "OFCL") /\ DictHas(tracks, "CARQ")
    /\ IF CorrectionRaises(tracks)
       THEN pc' = "raised" /\ UNCHANGED tracks
       ELSE /\ tracks' = correct_ofcl_based_on_carq_n_hollandb(tracks, arg.rmw_fill)
            /\ pc' = "corrected"
    /\ UNCHANGED <<data, arg, out, storeVars>>

StoreTable ==
    /\ pc = "start"
    /\ IF SetterRaises(arg.advisories, data)
       THEN pc' = "setter raised" /\ UNCHANGED out
       ELSE /\ out' = SetterStores(arg.advisories, arg.rmw_fill, arg.remove, data)
            /\ pc' = "stored"
    /\ UNCHANGED <<data, arg, tracks, storeVars>>

NextCorrector == SeparateTracks \/ CorrectTracks \/ CombineTracks \/ StoreTable

SpecCorrector == InitCorrector /\ [][NextCorrector]_vars

HasAdvisory(df, advisory) == \E i \in 1..Len(df) : df[i].advisory = advisory

(* C5: a table with OFCL records and no CARQ record is stored row for row  *)
(* as it was handed in (no correction, no field changed), with no error.   *)
OfclOnlyStoredAsIs ==
    (pc \in {"stored", "setter raised"}
         /\ HasAdvisory(data, "OFCL") /\ ~HasAdvisory(data, "CARQ"))
        => pc = "stored" /\ out = data

(* Two cycles of OFCL records with missing fields, and no CARQ record,     *)
(* have been stored for a store that asked for OFCL.                       *)
OfclOnlyStored ==
    /\ pc = "stored"
    /\ "OFCL" \in Range(arg.advisories)
    /\ \A i \in 1..Len(data) : data[i].advisory = "OFCL"
    /\ \E i, j \in 1..Len(data) :
           /\ data[i].track_start_time # data[j].track_start_time
           /\ data[i].radius_of_maximum_winds = NaN

(* C6: under the persistent policy every OFCL record whose RMW was null or *)
(* 0 gets the RMW of the first 0-hour record of its reference CARQ track,  *)
(* at every lead hour, and every other OFCL record keeps its RMW.          *)
PersistentFill ==
    (pc = "corrected" /\ arg.rmw_fill = "persistent") =>
        LET before == DictGet(separate_tracks(data), "OFCL")
            after == DictGet(tracks, "OFCL")
            carq == DictGet(separate_tracks(data), "CARQ")
        IN  /\ DictKeys(after) = DictKeys(before)
            /\ \A c \in 1..Len(before) :
                   /\ Len(after[c].val) = Len(before[c].val)
                   /\ \A i \in 1..Len(before[c].val) :
                          after[c].val[i].radius_of_maximum_winds =
                              IF before[c].val[i].radius_of_maximum_winds
                                     \in {0, NaN}
                              THEN CarqRef(CarqForecast(carq, before[c].key))
                                       .radius_of_maximum_winds
                              ELSE before[c].val[i].radius_of_maximum_winds

(* An OFCL record at lead hour 24 had no RMW and now has the reference's   *)
(* 0-hour RMW of 15.                                                       *)
PersistentFillReached ==
    /\ pc = "corrected" /\ arg.rmw_fill = "persistent"
    /\ \E c \in 1..Len(DictGet(tracks, "OFCL")) :
           LET before == DictGet(separate_tracks(data), "OFCL")[c].val
               after == DictGet(tracks, "OFCL")[c].val
           IN  \E i \in 1..Len(after) :
                   /\ after[i].forecast_hours = 24
                   /\ before[i].radius_of_maximum_winds = NaN
                   /\ after[i].radius_of_maximum_winds = 15

RegressionClamped ==
    (pc = "corrected" /\ arg.rmw_fill = "regression_penny_2023_no_smoothing") =>
        LET before == DictGet(separate_tracks(data), "OFCL")
            after == DictGet(tracks, "OFCL")
            carq == DictGet(separate_tracks(data), "CARQ")
        IN  \A c \in 1..Len(before) :
                LET rmw0 == CarqRef(CarqForecast(carq, before[c].key))
                                .radius_of_maximum_winds
                    upper == IF rmw0 > 120 THEN rmw0 ELSE 120
                IN  \A i \in 1..Len(before[c].val) :
                        LET was == before[c].val[i].radius_of_maximum_winds
                            now == after[c].val[i].radius_of_maximum_winds
                        IN  IF \E j \in 1..Len(before[c].val) :
                                   /\ before[c].val[j].forecast_hours
                                          = before[c].val[i].forecast_hours
                                   /\ before[c].val[j].radius_of_maximum_winds
                                          \in {0, NaN}
                            THEN now # NaN /\ 5 <= now /\ now <= upper
                            ELSE now = was

(* A regression value of 2 has been raised to 5 at lead hour 24, and a    *)
(* 0-hour record without RMW has got a reference RMW of 150 as it is.      *)
RegressionClampReached ==
    /\ pc = "corrected" /\ arg.rmw_fill = "regression_penny_2023_no_smoothing"
    /\ arg.regression = 2
    /\ \E c, d \in 1..Len(DictGet(tracks, "OFCL")) :
           LET before == DictGet(separate_tracks(data), "OFCL")
               after == DictGet(tracks, "OFCL")
           IN  /\ \E i \in 1..Len(after[c].val) :
                      /\ before[c].val[i].radius_of_maximum_winds = NaN
                      /\ after[c].val[i].forecast_hours = 24
                      /\ after[c].val[i].radius_of_maximum_winds = 5
               /\ \E i \in 1..Len(after[d].val) :
                      /\ before[d].val[i].radius_of_maximum_winds = NaN
                      /\ after[d].val[i].forecast_hours = 0
                      /\ after[d].val[i].radius_of_maximum_winds = 150

(* C26: the corrector returns the tracks of every advisory but OFCL as     *)
(* they were, keeps the cycle keys of OFCL and the records of every OFCL   *)
(* track, and changes no field of an OFCL record but                       *)
(* radius_of_maximum_winds, central_pressure and background_pressure.      *)
OnlyOfclFieldsChange ==
    pc = "corrected" =>
        LET before == separate_tracks(data)
        IN  /\ DictKeys(tracks) = DictKeys(before)
            /\ \A a \in 1..Len(before) :
                   IF before[a].key # "OFCL" THEN tracks[a] = before[a]
                   ELSE /\ DictKeys(tracks[a].val) = DictKeys(before[a].val)
                        /\ \A c \in 1..Len(before[a].val) :
                               /\ Len(tracks[a].val[c].val)
                                      = Len(before[a].val[c].val)
                               /\ \A i \in 1..Len(before[a].val[c].val) :
                                      LET was == before[a].val[c].val[i]
                                          now == tracks[a].val[c].val[i]
                                      IN  [now EXCEPT
                                              !.radius_of_maximum_winds =
                                                  was.radius_of_maximum_winds,
                                              !.central_pressure =
                                                  was.central_pressure,
                                              !.background_pressure =
                                                  was.background_pressure] = was

(* A table with two CARQ cycles and an OFCL record without RMW and         *)
(* pressures has been corrected: the record has all three.                 *)
OfclFieldsChanged ==
    /\ pc = "corrected"
    /\ Len(DictGet(tracks, "CARQ")) = 2
    /\ \E c \in 1..Len(DictGet(tracks, "OFCL")) :
           LET before == DictGet(separate_tracks(data), "OFCL")[c].val
               after == DictGet(tracks, "OFCL")[c].val
           IN  \E i \in 1..Len(after) :
                   /\ before[i].radius_of_maximum_winds = NaN
                   /\ before[i].central_pressure = <<0, 0>>
                   /\ before[i].background_pressure = NaN
                   /\ after[i].radius_of_maximum_winds # NaN
                   /\ ~IsNaN(after[i].central_pressure)
                   /\ after[i].background_pressure # NaN

(* C18: an OFCL track is corrected with the CARQ track of its own cycle    *)
(* when there is one, and otherwise with the CARQ track of the earliest    *)
(* cycle, in whatever order the CARQ cycles stand in the table: a missing  *)
(* background pressure is filled from the 0-hour record of that track.     *)
EarliestReference ==
    pc = "corrected" =>
        LET before == DictGet(separate_tracks(data), "OFCL")
            after == DictGet(tracks, "OFCL")
            carq == DictGet(separate_tracks(data), "CARQ")
            earliest == CHOOSE k \in 1..Len(carq) :
                            \A j \in 1..Len(carq) :
                                carq[k].val[1].track_start_time
                                    <= carq[j].val[1].track_start_time
        IN  \A c \in 1..Len(before) :
                LET reference == IF DictHas(carq, before[c].key)
                                 THEN DictGet(carq, before[c].key)
                                 ELSE carq[earliest].val
                IN  \A i \in 1..Len(before[c].val) :
                        (radp_missing(before[c].val[i])
                             /\ ZeroHour(reference) # <<>>) =>
                            after[c].val[i].background_pressure
                                = ZeroHour(reference)[1].background_pressure

-----------------------------------------------------------------------------
(* The isotach and swath builders applied to a view table.                 *)

MaxIsoRows == 3

(* A record of the 34-knot isotach with the given quadrant radii (nautical *)
(* miles), heading 90 h degrees at longitude t + h.                        *)
IsotachRow(advisory, t, h, wind, ne, se, sw, nw) ==
    [ForecastRow(advisory, t, h) EXCEPT
        !.longitude = t + h, !.geometry = t + h,
        !.speed = <<1, 1>>, !.direction = 90 * h, !.isotach_radius = wind,
        !.isotach_radius_for_NEQ = ne, !.isotach_radius_for_SEQ = se,
        !.isotach_radius_for_SWQ = sw, !.isotach_radius_for_NWQ = nw]

IsotachPlaces ==
    {<<"OFCL", 0, 0>>, <<"OFCL", 0, 1>>, <<"OFCL", 0, 2>>, <<"OFCL", 1, 0>>,
     <<"CARQ", 0, 0>>}

IsotachRows ==
    UNION {{IsotachRow(p[1], p[2], p[3], 34, 0, NaN, 0, NaN),
            IsotachRow(p[1], p[2], p[3], 34, 0, 5, 0, 5),
            IsotachRow(p[1], p[2], p[3], 34, 5, 5, 5, 5)} : p \in IsotachPlaces}
        \cup {IsotachRow("OFCL", 0, 0, 50, 5, 5, 5, 5)}

InitIsotachs ==
    /\ \E n \in 1..MaxIsoRows : \E df \in [1..n -> IsotachRows] :
           data = WithIndex(df, FALSE)
    /\ arg \in {34, 50}
    /\ tracks = <<>>
    /\ out = <<>>
    /\ pc = "start"
    /\ store = IdleStore
    /\ op = "-"
    /\ ret = "-"

BuildIsotachs ==
    /\ pc = "start"
    /\ tracks' = Isotachs(data, arg)
    /\ pc' = "isotachs"
    /\ UNCHANGED <<data, arg, out, storeVars>>

BuildWindSwaths ==
    /\ pc = "isotachs"
    /\ out' = WindSwaths(tracks)
    /\ pc' = "swaths"
    /\ UNCHANGED <<data, arg, tracks, storeVars>>

NextIsotachs == BuildIsotachs \/ BuildWindSwaths

SpecIsotachs == InitIsotachs /\ [][NextIsotachs]_vars

(* C7: a Track with one isotach has no swath entry, and a Track with       *)
(* n >= 2 isotachs has as swath the union of the n - 1 convex hulls of its *)
(* consecutive isotach pairs (i, i + 1): for two, the hull of their union. *)
SwathOfConsecutivePairs ==
    pc = "swaths" =>
        \A a \in 1..Len(tracks) : \A c \in 1..Len(tracks[a].val) :
            LET polygons == DictValues(tracks[a].val[c].val)
                n == Len(polygons)
                swaths == DictGet(out, tracks[a].key)
                cycle == tracks[a].val[c].key
            IN  /\ n = 1 => ~DictHas(swaths, cycle)
                /\ n = 2 => /\ DictHas(swaths, cycle)
                            /\ DictGet(swaths, cycle)
                                   = {[hull |-> polygons[1] \cup polygons[2]]}
                /\ n >= 2 => /\ DictHas(swaths, cycle)
                             /\ DictGet(swaths, cycle)
                                    = {[hull |-> polygons[i] \cup polygons[i + 1]] :
                                           i \in 1..n - 1}

(* The swath of a Track with three isotachs has been built from its two    *)
(* hulls.                                                                  *)
SwathsReached ==
    /\ pc = "swaths"
    /\ \E a \in 1..Len(tracks) : \E c \in 1..Len(tracks[a].val) :
           /\ Len(tracks[a].val[c].val) = 3
           /\ Cardinality(DictGet(DictGet(out, tracks[a].key),
                                  tracks[a].val[c].key)) = 2

(* C8: a record all of whose quadrant radii are at most 1 meter or missing *)
(* has no isotach under its (advisory, cycle, valid time); a cycle without *)
(* entries is absent, an advisory without cycles is absent, and no polygon *)
(* or nested map of the result is empty.                                   *)
NoEmptyIsotach ==
    pc = "isotachs" =>
        /\ \A a \in 1..Len(tracks) :
               /\ tracks[a].val # <<>>
               /\ \A c \in 1..Len(tracks[a].val) :
                      /\ tracks[a].val[c].val # <<>>
                      /\ \A i \in 1..Len(tracks[a].val[c].val) :
                             tracks[a].val[c].val[i].val # {}
        /\ \A a \in {"OFCL", "CARQ"}, t \in 0..1, v \in 0..3 :
               LET records ==
                       {i \in 1..Len(data) :
                            /\ data[i].advisory = a
                            /\ data[i].track_start_time = t
                            /\ data[i].datetime = v
                            /\ data[i].isotach_radius = arg}
                   small(i) ==
                       \A q \in Range(quadrant_names) :
                           data[i][q] = NaN \/ data[i][q] * 1852 <= 1
                   present ==
                       /\ DictHas(tracks, a)
                       /\ DictHas(DictGet(tracks, a), FormatTime(t))
                       /\ DictHas(DictGet(DictGet(tracks, a), FormatTime(t)),
                                  IsotachKey(v))
               IN  (\A i \in records : small(i)) => ~present

(* Isotachs have been built from a table in which one cycle has only       *)
(* records without a quadrant, next to a cycle that has an isotach.        *)
DegenerateRecordReached ==
    /\ pc = "isotachs"
    /\ Len(tracks) = 1
    /\ Len(tracks[1].val) = 1
    /\ \E i, j \in 1..Len(data) :
           /\ data[i].advisory = data[j].advisory
           /\ data[i].isotach_radius = arg /\ data[j].isotach_radius = arg
           /\ data[i].track_start_time # data[j].track_start_time
           /\ data[i].isotach_radius_for_NEQ = 0
           /\ data[i].isotach_radius_for_SEQ = NaN
           /\ data[j].isotach_radius_for_SEQ = 5

(* C17: with the rotation offset o = 360 - direction, the k-th quadrant of *)
(* NE, SE, SW, NW (k = 0..3) is drawn over [o + 90 k, o + 90 (k + 1)]      *)
(* whenever its radius exceeds 1 meter, whichever other quadrants are      *)
(* skipped.                                                                *)
QuadrantSpans ==
    pc = "isotachs" =>
        \A i \in 1..Len(data) :
            LET row == data[i]
                same == {j \in 1..Len(data) :
                            /\ data[j].advisory = row.advisory
                            /\ data[j].track_start_time = row.track_start_time
                            /\ data[j].datetime = row.datetime
                            /\ data[j].isotach_radius = arg}
                drawn == {k \in 1..4 : /\ row[quadrant_names[k]] # NaN
                                       /\ row[quadrant_names[k]] * 1852 > 1}
                expected ==
                    {[center |-> row.longitude,
                      radius |-> row[quadrant_names[k]] * 1852,
                      start |-> 360 - row.direction + 90 * (k - 1),
                      end |-> 360 - row.direction + 90 * k] : k \in drawn}
            IN  (same = {i} /\ drawn # {}) =>
                    /\ DictHas(tracks, row.advisory)
                    /\ DictHas(DictGet(tracks, row.advisory),
                               FormatTime(row.track_start_time))
                    /\ DictHas(DictGet(DictGet(tracks, row.advisory),
                                       FormatTime(row.track_start_time)),
                               IsotachKey(row.datetime))
                    /\ DictGet(DictGet(DictGet(tracks, row.advisory),
                                       FormatTime(row.track_start_time)),
                               IsotachKey(row.datetime)) = expected

-----------------------------------------------------------------------------
(* The decks that exist outside the program: what the reader finds under a *)
(* storm id and file deck, or in a file.  Records are in file order and    *)
(* carry the cycle time as datetime (valid time for BEST) and the lead     *)
(* hour; speed and direction are the columns of the deck.                  *)

None == "None"

DeckRow(storm, advisory, t, h, lon) ==
    [BlankRow EXCEPT
        !.storm = storm, !.advisory = advisory, !.datetime = t,
        !.forecast_hours = h, !.longitude = lon, !.geometry = lon,
        !.speed = <<7, 1>>, !.direction = 0]

CarqDeckRow(storm, t, h, lon) ==
    [DeckRow(storm, "CARQ", t, h, lon) EXCEPT
        !.max_sustained_wind_speed = 50, !.radius_of_maximum_winds = 15 + 15 * t,
        !.central_pressure = <<990, 1>>, !.background_pressure = 1012]

(* An OFCL record: the 0-hour record has every field, later lead hours     *)
(* have RMW and pressures missing; all have a 34-knot isotach.             *)
OfclDeckRow(storm, t, h, lon) ==
    [DeckRow(storm, "OFCL", t, h, lon) EXCEPT
        !.max_sustained_wind_speed = 40,
        !.radius_of_maximum_winds = IF h = 0 THEN 20 ELSE 0,
        !.central_pressure = IF h = 0 THEN <<980, 1>> ELSE <<0, 0>>,
        !.background_pressure = IF h = 0 THEN 1010 ELSE NaN,
        !.isotach_radius = 34,
        !.isotach_radius_for_NEQ = 5, !.isotach_radius_for_SEQ = 5,
        !.isotach_radius_for_SWQ = 0, !.isotach_radius_for_NWQ = 5]

StormIds == {"AL01", "AL02"}

Filenames == {"f.dat", "b.dat"}

(* atcf_url and urlopen: the decks a connection can be made to. *)
Reachable(nhc_code, file_deck) ==
    \/ nhc_code = "AL01" /\ file_deck \in {"a", "b"}
    \/ nhc_code = "AL02" /\ file_deck = "b"
    \/ nhc_code = "AL05" /\ file_deck = "a"

Deck(nhc_code, file_deck) ==
    IF nhc_code = "AL01" /\ file_deck = "a"
    THEN <<CarqDeckRow("AL01", 0, 0, 0), OfclDeckRow("AL01", 0, 0, 0),
           OfclDeckRow("AL01", 0, 1, 1), CarqDeckRow("AL01", 1, 0, 1),
           OfclDeckRow("AL01", 1, 0, 1), OfclDeckRow("AL01", 1, 1, 3)>>
    ELSE IF nhc_code = "AL05"
    THEN <<CarqDeckRow("AL05", 0, 0, 0), OfclDeckRow("AL05", 0, 0, 0),
           OfclDeckRow("AL05", 0, 3, 3), CarqDeckRow("AL05", 1, 0, 1),
           OfclDeckRow("AL05", 1, 0, 1), OfclDeckRow("AL05", 1, 1, 2)>>
    ELSE IF nhc_code = "AL01"
    THEN <<DeckRow("AL01", "BEST", 0, 0, 0), DeckRow("AL01", "BEST", 1, 0, 1),
           DeckRow("AL01", "BEST", 2, 0, 3)>>
    ELSE <<DeckRow("AL02", "BEST", 0, 0, 5), DeckRow("AL02", "BEST", 1, 0, 6)>>

(* The file f.dat holds the advisory deck of a third storm, whose CARQ has *)
(* no 0-hour record; the file b.dat holds the best track of a fourth.      *)
FileDeck(filename) ==
    IF filename = "b.dat"
    THEN <<DeckRow("AL04", "BEST", 1, 0, 2), DeckRow("AL04", "BEST", 2, 0, 4)>>
    ELSE <<CarqDeckRow("AL03", 1, -1, 6), OfclDeckRow("AL03", 1, 0, 7),
           OfclDeckRow("AL03", 1, 1, 9)>>

(* read_atcf(atcf_file, advisories): the records of the deck whose         *)
(* advisory is one of the given, in file order, indexed 0..n-1.            *)
read_atcf(atcf_file, advisories) ==
    WithIndex(SelectSeq(atcf_file, LAMBDA r : r.advisory \in Range(advisories)),
              FALSE)

-----------------------------------------------------------------------------
(* VortexTrack.  A store is the record of the object's private fields;     *)
(* None is "None" for names, NaN for times, and a has_ flag for tables and *)
(* caches.  A getter or setter is a function from the store before to the  *)
(* store after; "raised" marks that it raised on the way, "read" that it   *)
(* called read_atcf, with "read_args" what it asked for.                   *)

(* The member ATCF_Advisory.BEST, which is not equal to the string "BEST". *)
EnumBEST == "ATCF_Advisory.BEST"

(* [advisory.value for advisory in ATCF_Advisory] *)
ATCF_Advisory == <<"BEST", "OFCL", "OFCP", "HMON", "CARQ", "HWRF">>

(* The deck's name of each advisory in a list of strings and members. *)
AdvisoryValues(advisories) ==
    [i \in 1..Len(advisories) |->
        IF advisories[i] = EnumBEST THEN "BEST" ELSE advisories[i]]

NewStore ==
    [nhc_code |-> None, file_deck |-> None, advisories |-> <<>>,
     filename |-> None, rmw_fill |-> None,
     start_date |-> NaN, end_date |-> NaN, forecast_time |-> NaN,
     has_data |-> FALSE, unfiltered_data |-> <<>>,
     advisories_to_remove |-> <<>>,
     has_location_hash |-> FALSE, location_hash |-> <<>>,
     has_linestrings |-> FALSE, linestrings |-> <<>>,
     has_distances |-> FALSE, distances |-> <<>>,
     previous_configuration |->
         [id |-> None, file_deck |-> None, advisories |-> <<>>,
          filename |-> None, rmw_fill |-> None],
     raised |-> FALSE, read |-> FALSE, read_args |-> <<>>]

Raise(s) == [s EXCEPT !.raised = TRUE]

(* nhc_code (getter): a missing id is spelled from the last record. *)
GetNhcCode(s) ==
    IF s.nhc_code = None /\ s.has_data
    THEN IF s.unfiltered_data = <<>> THEN Raise(s)
         ELSE [s EXCEPT !.nhc_code = s.unfiltered_data[Len(s.unfiltered_data)].storm]
    ELSE s

SetNhcCode(s, nhc_code) == [s EXCEPT !.nhc_code = nhc_code]

(* advisories (getter): the best-track deck has the BEST advisory only. *)
GetAdvisories(s) ==
    IF s.file_deck = "b" THEN [s EXCEPT !.advisories = <<EnumBEST>>] ELSE s

valid_advisories(s) ==
    IF s.file_deck = "a" THEN SelectSeq(ATCF_Advisory, LAMBDA a : a # "BEST")
    ELSE IF s.file_deck = "b" THEN <<"BEST">>
    ELSE ATCF_Advisory

(* advisories (setter), given a list of advisory names. *)
SetAdvisories(s, advisories) == [s EXCEPT !.advisories = advisories]

(* advisories (setter), given None. *)
SetAdvisoriesNone(s) == [s EXCEPT !.advisories = valid_advisories(s)]

(* file_deck (setter); file_deck is "a", "b" or None. *)
SetFileDeck(s, file_deck) ==
    IF file_deck = None /\ s.filename = None
    THEN LET s1 == GetAdvisories(s)
         IN  [s1 EXCEPT !.file_deck =
                 IF "BEST" \in Range(AdvisoryValues(s1.advisories))
                 THEN "b" ELSE "a"]
    ELSE [s EXCEPT !.file_deck = file_deck]

SetFilename(s, filename) == [s EXCEPT !.filename = filename]

RMWFillMethod ==
    {"none", "persistent", "regression_penny_2023",
     "regression_penny_2023_with_smoothing",
     "regression_penny_2023_no_smoothing"}

SetRmwFill(s, rmw_fill) ==
    [s EXCEPT !.rmw_fill = IF rmw_fill \in RMWFillMethod THEN rmw_fill
                           ELSE "none"]

(* __configuration, with what its getters do to the store. *)
EvalConfiguration(s) ==
    LET s1 == GetNhcCode(s) IN IF s1.raised THEN s1 ELSE GetAdvisories(s1)

Configuration(s) ==
    [id |-> s.nhc_code, file_deck |-> s.file_deck, advisories |-> s.advisories,
     filename |-> s.filename, rmw_fill |-> s.rmw_fill]

(* sort_values(["datetime", "advisory"]): advisories in the order of their *)
(* names.                                                                  *)
AdvisoryRank(advisory) ==
    CHOOSE i \in 1..6 :
        <<"BEST", "CARQ", "HMON", "HWRF", "OFCL", "OFCP">>[i] = advisory

RECURSIVE InsertByDatetimeAdvisory(_, _)
InsertByDatetimeAdvisory(s, r) ==
    IF s = <<>> THEN <<r>>
    ELSE LET last == s[Len(s)]
         IN  IF \/ last.datetime < r.datetime
                \/ /\ last.datetime = r.datetime
                   /\ AdvisoryRank(last.advisory) <= AdvisoryRank(r.advisory)
             THEN Append(s, r)
             ELSE Append(InsertByDatetimeAdvisory(SubSeq(s, 1, Len(s) - 1), r),
                         last)

RECURSIVE SortByDatetimeAdvisory(_)
SortByDatetimeAdvisory(df) ==
    IF df = <<>> THEN <<>>
    ELSE InsertByDatetimeAdvisory(
             SortByDatetimeAdvisory(SubSeq(df, 1, Len(df) - 1)), df[Len(df)])

(* The earliest BEST valid time becomes the start of every BEST record,    *)
(* when the member BEST is among the advisories of the store.              *)
BestTrackStart(advisories, df) ==
    IF EnumBEST \in Range(advisories)
    THEN CHOOSE started \in
             {[i \in 1..Len(df) |->
                  IF df[i].advisory = "BEST"
                  THEN [df[i] EXCEPT !.track_start_time = first]
                  ELSE df[i]] :
                 first \in {SetMin({df[j].datetime :
                                       j \in {k \in 1..Len(df) :
                                                  df[k].advisory = "BEST"}})}} :
             TRUE
    ELSE df

(* .iloc[0] of the empty selection of BEST records raises IndexError. *)
BestTrackStartRaises(advisories, df) ==
    /\ EnumBEST \in Range(advisories)
    /\ \A i \in 1..Len(df) : df[i].advisory # "BEST"

(* The cycle time is kept as track_start_time (line 1023). *)
StartAtDatetime(df) ==
    [i \in 1..Len(df) |-> [df[i] EXCEPT !.track_start_time = df[i].datetime]]

(* The lead hour is added to the valid time of forecasts (lines 1031-1038). *)
AddForecastHours(df) ==
    [i \in 1..Len(df) |->
        IF df[i].advisory # "BEST"
        THEN [df[i] EXCEPT !.datetime = df[i].datetime + df[i].forecast_hours]
        ELSE df[i]]

(* Lines 1020-1038.  Here and below, x \in {e} gives the value of e the    *)
(* name x.                                                                 *)
CanonicalTable(advisories, dataframe) ==
    CHOOSE table \in
        {AddForecastHours(started) :
            started \in
                {BestTrackStart(advisories, StartAtDatetime(sorted)) :
                    sorted \in {WithIndex(SortByDatetimeAdvisory(dataframe),
                                          FALSE)}}} : TRUE

(* Lines 993-1041 of the getter of unfiltered_data: the table is read and  *)
(* stored anew.                                                            *)
Rebuild(s, configuration) ==
    IF s.filename = None /\ ~Reachable(s.nhc_code, s.file_deck) THEN Raise(s)
    ELSE LET atcf_file == IF s.filename # None THEN FileDeck(s.filename)
                          ELSE Deck(s.nhc_code, s.file_deck)
             to_remove ==
                 IF /\ "OFCL" \in Range(s.advisories)
                    /\ "CARQ" \notin Range(s.advisories)
                 THEN Append(s.advisories_to_remove, "CARQ")
                 ELSE s.advisories_to_remove
             requested == AdvisoryValues(s.advisories) \o to_remove
             s1 == [s EXCEPT !.advisories_to_remove = to_remove,
                             !.read = TRUE,
                             !.read_args = <<s.filename, s.nhc_code, s.file_deck,
                                             requested>>]
             Store(dataframe) ==
                 IF BestTrackStartRaises(s.advisories, dataframe) THEN Raise(s1)
                 ELSE CHOOSE after \in
                          {IF SetterRaises(s.advisories, table) THEN Raise(s1)
                           ELSE [s1 EXCEPT
                                    !.unfiltered_data =
                                        SetterStores(s.advisories, s.rmw_fill,
                                                     to_remove, table),
                                    !.has_data = TRUE,
                                    !.advisories_to_remove = <<>>,
                                    !.previous_configuration = configuration] :
                              table \in {CanonicalTable(s.advisories, dataframe)}} :
                          TRUE
         IN  CHOOSE after \in
                 {Store(dataframe) :
                     dataframe \in {read_atcf(atcf_file, requested)}} : TRUE

(* pandas.util.hash_pandas_object(geometry): a series of hashes under the  *)
(* index of the table.                                                     *)
LocationHash(df) == [i \in 1..Len(df) |-> [idx |-> df[i].idx, hash |-> df[i].geometry]]

(* Two series with different indexes cannot be compared: ValueError. *)
HashCompareRaises(s) ==
    /\ s.has_location_hash
    /\ Len(s.location_hash) = Len(s.unfiltered_data)
    /\ Column(s.location_hash, "idx") # Column(s.unfiltered_data, "idx")

updated_locations(s) ==
    [i \in 1..Len(s.unfiltered_data) |->
        \/ ~s.has_location_hash
        \/ Len(s.location_hash) # Len(s.unfiltered_data)
        \/ s.location_hash[i] # LocationHash(s.unfiltered_data)[i]
        \/ IsNaN(s.unfiltered_data[i].speed)]

(* Lines 1043-1060: the velocity of the updated rows is computed from the  *)
(* updated rows, and written back under their index labels.                *)
UpdateVelocity(s) ==
    IF HashCompareRaises(s) THEN Raise(s)
    ELSE LET Write(rows, computed) ==
                 [s EXCEPT
                     !.unfiltered_data =
                         [i \in 1..Len(s.unfiltered_data) |->
                             IF i \in rows
                             THEN computed[Cardinality({j \in rows : j <= i})]
                             ELSE s.unfiltered_data[i]],
                     !.has_location_hash = TRUE,
                     !.location_hash = LocationHash(s.unfiltered_data)]
             Update(rows) ==
                 IF rows = {} THEN s
                 ELSE CHOOSE after \in
                          {Write(rows, computed) :
                              computed \in
                                  {compute_velocity(
                                       SelectSeq(s.unfiltered_data,
                                                  LAMBDA r : \E i \in rows :
                                                      s.unfiltered_data[i].idx
                                                          = r.idx))}} : TRUE
         IN  CHOOSE after \in
                 {Update({i \in 1..Len(updated) : updated[i]}) :
                     updated \in {updated_locations(s)}} : TRUE

(* unfiltered_data (getter). *)
GetUnfilteredData(s0) ==
    LET Read(s) ==
            IF \/ ~s.has_data
               \/ Len(s.unfiltered_data) = 0
               \/ Configuration(s) # s.previous_configuration
            THEN Rebuild(s, Configuration(s))
            ELSE s
        Velocity(s1) == IF s1.raised THEN s1 ELSE UpdateVelocity(s1)
        Get(s) ==
            IF s.raised THEN s
            ELSE CHOOSE after \in {Velocity(s1) : s1 \in {Read(s)}} : TRUE
    IN  CHOOSE after \in {Get(s) : s \in {EvalConfiguration(s0)}} : TRUE

(* start_date and end_date (setters), given None. *)
SetStartDateNone(s0) ==
    CHOOSE after \in
        {IF s.raised THEN s
         ELSE IF s.unfiltered_data = <<>> THEN Raise(s)
         ELSE [s EXCEPT !.start_date = s.unfiltered_data[1].datetime] :
            s \in {GetUnfilteredData(s0)}} : TRUE

SetEndDateNone(s0) ==
    CHOOSE after \in
        {IF s.raised THEN s
         ELSE IF s.unfiltered_data = <<>> THEN Raise(s)
         ELSE [s EXCEPT !.end_date =
                  s.unfiltered_data[Len(s.unfiltered_data)].datetime] :
            s \in {GetUnfilteredData(s0)}} : TRUE

(* subset_time_interval(start, end, subset_start, subset_end) for a time   *)
(* given as a timestamp: the timestamp itself.                             *)
subset_time_interval(start, end, subset) == subset

(* start_date and end_date (setters), given a timestamp. *)
SetStartDate(s0, start_date) ==
    CHOOSE after \in
        {IF s.raised THEN s
         ELSE IF s.unfiltered_data = <<>> THEN Raise(s)
         ELSE [s EXCEPT !.start_date =
                  subset_time_interval(
                      s.unfiltered_data[1].datetime,
                      s.unfiltered_data[Len(s.unfiltered_data)].datetime,
                      start_date)] :
            s \in {GetUnfilteredData(s0)}} : TRUE

SetEndDate(s0, end_date) ==
    CHOOSE after \in
        {IF s.raised THEN s
         ELSE IF s.unfiltered_data = <<>> THEN Raise(s)
         ELSE [s EXCEPT !.end_date =
                  subset_time_interval(
                      s.unfiltered_data[1].datetime,
                      s.unfiltered_data[Len(s.unfiltered_data)].datetime,
                      end_date)] :
            s \in {GetUnfilteredData(s0)}} : TRUE

(* forecast_time (setter); NaN stands for None. *)
(* A setter that stores a forecast time under every file deck. *)
SetForecastTimeAnyDeck(s, forecast_time) ==
    [s EXCEPT !.forecast_time = forecast_time]

SetForecastTime(s, forecast_time) ==
    IF forecast_time # NaN /\ s.file_deck # "a" THEN Raise(s)
    ELSE [s EXCEPT !.forecast_time = forecast_time]

(* A view whose window leaves out the records at end_date. *)
ViewBeforeEnd(s) ==
    SelectSeq(s.unfiltered_data,
              LAMBDA r : /\ s.forecast_time # NaN
                            => r.track_start_time = s.forecast_time
                         /\ r.datetime >= s.start_date
                         /\ r.datetime < s.end_date)

(* data (getter): the records inside the time window and, when             *)
(* forecast_time is set, of that cycle, of the table that                  *)
(* self.unfiltered_data returns.                                           *)
View(s) ==
    SelectSeq(s.unfiltered_data,
              LAMBDA r : /\ s.forecast_time # NaN
                            => r.track_start_time = s.forecast_time
                         /\ r.datetime >= s.start_date
                         /\ r.datetime <= s.end_date)

(* The LineString of a track: its distinct positions in order, if there    *)
(* are two of them or more.                                                *)
TrackLinestrings(advisory_tracks) ==
    LET points(c) == Unique(Column(advisory_tracks[c].val, "geometry"))
        lines == [c \in 1..Len(advisory_tracks) |->
                     [key |-> advisory_tracks[c].key, val |-> points(c)]]
    IN  SelectSeq(lines, LAMBDA l : Len(l.val) > 1)

Linestrings(t) ==
    [a \in 1..Len(t) |-> [key |-> t[a].key, val |-> TrackLinestrings(t[a].val)]]

(* linestrings (getter). *)
GetLinestrings(s0) ==
    LET Build(s1) ==
            IF s1.raised THEN s1
            ELSE [s1 EXCEPT !.has_linestrings = TRUE,
                            !.linestrings = Linestrings(separate_tracks(View(s1)))]
        Get(s) ==
            IF s.raised THEN s
            ELSE IF \/ ~s.has_linestrings
                    \/ Len(s.linestrings) = 0
                    \/ Configuration(s) # s.previous_configuration
            THEN CHOOSE after \in {Build(s1) : s1 \in {GetUnfilteredData(s)}} : TRUE
            ELSE s
    IN  CHOOSE after \in {Get(s) : s \in {EvalConfiguration(s0)}} : TRUE

(* numpy.sum of the geodesic distances between consecutive points. *)
RECURSIVE LinestringLength(_)
LinestringLength(points) ==
    IF Len(points) < 2 THEN 0
    ELSE GeodInv(points[1], points[2]).distance + LinestringLength(Tail(points))

Distances(linestrings) ==
    [a \in 1..Len(linestrings) |->
        [key |-> linestrings[a].key,
         val |-> [c \in 1..Len(linestrings[a].val) |->
                     [key |-> linestrings[a].val[c].key,
                      val |-> LinestringLength(linestrings[a].val[c].val)]]]]

(* distances (getter). *)
GetDistances(s0) ==
    LET Build(s1) ==
            IF s1.raised THEN s1
            ELSE [s1 EXCEPT !.has_distances = TRUE,
                            !.distances = Distances(s1.linestrings)]
        Get(s) ==
            IF s.raised THEN s
            ELSE IF \/ ~s.has_distances
                    \/ Len(s.distances) = 0
                    \/ Configuration(s) # s.previous_configuration
            THEN CHOOSE after \in {Build(s1) : s1 \in {GetLinestrings(s)}} : TRUE
            ELSE s
    IN  CHOOSE after \in {Get(s) : s \in {EvalConfiguration(s0)}} : TRUE

(* isotachs(wind_speed) and wind_swaths(wind_speed): the assertion comes   *)
(* before the first read of self.data.                                     *)
CallIsotachs(s, wind_speed) ==
    IF wind_speed \notin ValidIsotachValues THEN Raise(s) ELSE GetUnfilteredData(s)

(* VortexTrack(storm, file_deck = ..., advisories = ..., rmw_fill = ...)   *)
(* for a storm id; advisories <<>> stands for None.                        *)
Construct(storm, file_deck, advisories, rmw_fill) ==
    LET s1 == SetNhcCode(NewStore, storm)
        s2 == IF advisories = <<>> THEN SetAdvisoriesNone(s1)
              ELSE SetAdvisories(s1, advisories)
        s3 == SetRmwFill(SetFileDeck(s2, file_deck), rmw_fill)
        Dates(s4) ==
            CHOOSE after \in
                {IF s6.raised THEN s6 ELSE SetEndDateNone(s6) :
                    s6 \in {SetStartDateNone(
                                [s4 EXCEPT !.previous_configuration =
                                              Configuration(s4)])}} : TRUE
    IN  CHOOSE after \in {Dates(s4) : s4 \in {EvalConfiguration(s3)}} : TRUE

-----------------------------------------------------------------------------
(* A track store in use: it is constructed for a storm id, then its        *)
(* configuration is changed and its accessors are called in any order.     *)
(* op is the last call (its name, its argument and the number of           *)
(* configuration changes so far) and ret its outcome: whether it returned  *)
(* or raised, and whether and with what arguments it called read_atcf.     *)
(* What it returned is in the store: unfiltered_data returns               *)
(* store.unfiltered_data, data returns View(store), tracks returns         *)
(* separate_tracks(View(store)), linestrings and distances return the      *)
(* caches, isotachs returns Isotachs(View(store), wind_speed).             *)

MaxChanges == 2

(* Every rebuild that raises after line 1015 leaves one more CARQ in the   *)
(* list of advisories to remove.                                           *)
MaxPending == 2

(* The store and the outcome that a call leaves. *)
Returns(name, argument, wind_speed, changes, after) ==
    \E s \in {after} :
        /\ Len(s.advisories_to_remove) <= MaxPending
        /\ store' = [s EXCEPT !.raised = FALSE, !.read = FALSE, !.read_args = <<>>]
        /\ op' = [name |-> name, arg |-> argument, wind_speed |-> wind_speed,
                  changes |-> changes]
        /\ ret' = [status |-> IF s.raised THEN "raise" ELSE "ok",
                   read |-> s.read, read_args |-> s.read_args]
        /\ UNCHANGED fnVars

Init ==
    /\ \E storm \in StormIds, file_deck \in {None, "a", "b"},
          advisories \in {<<>>, <<"OFCL">>, <<"OFCL", "CARQ">>},
          rmw_fill \in {"none", "persistent"} :
           \E s \in {Construct(storm, file_deck, advisories, rmw_fill)} :
               /\ ~s.raised
               /\ store = [s EXCEPT !.read = FALSE, !.read_args = <<>>]
               /\ op = [name |-> "VortexTrack",
                        arg |-> <<storm, file_deck, advisories, rmw_fill>>,
                        wind_speed |-> 0, changes |-> 0]
               /\ ret = [status |-> "ok", read |-> s.read,
                         read_args |-> s.read_args]
    /\ data = <<>>
    /\ arg = 0
    /\ tracks = <<>>
    /\ out = <<>>
    /\ pc = "store"

ChangeNhcCode ==
    /\ op.changes < MaxChanges
    /\ \E nhc_code \in StormIds :
           Returns("nhc_code", <<nhc_code>>, 0, op.changes + 1,
                   SetNhcCode(store, nhc_code))

ChangeFileDeck ==
    /\ op.changes < MaxChanges
    /\ \E file_deck \in {None, "a", "b"} :
           Returns("file_deck", <<file_deck>>, 0, op.changes + 1,
                   SetFileDeck(store, file_deck))

ChangeAdvisories ==
    /\ op.changes < MaxChanges
    /\ \E advisories \in {<<>>, <<"OFCL">>, <<"OFCL", "CARQ">>, <<"CARQ">>,
                          <<"HMON">>, <<"XXXX">>} :
           Returns("advisories", advisories, 0, op.changes + 1,
                   IF advisories = <<>> THEN SetAdvisoriesNone(store)
                   ELSE SetAdvisories(store, advisories))

ChangeFilename ==
    /\ op.changes < MaxChanges
    /\ \E filename \in Filenames \cup {None} :
           Returns("filename", <<filename>>, 0, op.changes + 1,
                   SetFilename(store, filename))

ChangeRmwFill ==
    /\ op.changes < MaxChanges
    /\ \E rmw_fill \in {"none", "persistent", "no such method"} :
           Returns("rmw_fill", <<rmw_fill>>, 0, op.changes + 1,
                   SetRmwFill(store, rmw_fill))

AccessUnfilteredData ==
    Returns("unfiltered_data", <<>>, 0, op.changes, GetUnfilteredData(store))

AccessData ==
    \E name \in {"data", "tracks"} :
        Returns(name, <<>>, 0, op.changes, GetUnfilteredData(store))

AccessLinestrings ==
    Returns("linestrings", <<>>, 0, op.changes, GetLinestrings(store))

AccessDistances ==
    Returns("distances", <<>>, 0, op.changes, GetDistances(store))

AccessIsotachs ==
    \E name \in {"isotachs", "wind_swaths"}, wind_speed \in {34, 40} :
        Returns(name, <<>>, wind_speed, op.changes,
                CallIsotachs(store, wind_speed))

Next ==
    \/ ChangeNhcCode \/ ChangeFileDeck \/ ChangeAdvisories \/ ChangeFilename
    \/ ChangeRmwFill
    \/ AccessUnfilteredData \/ AccessData
    \/ AccessLinestrings \/ AccessDistances \/ AccessIsotachs

Spec == Init /\ [][Next]_vars

(* C4: isotachs(wind_speed) and wind_swaths(wind_speed) with a wind speed  *)
(* outside {34, 50, 64} raise before any record is read or processed,      *)
(* return nothing, and leave the table and the caches of the store as they *)
(* were.                                                                   *)
InvalidWindSpeedFails ==
    [][(op'.name \in {"isotachs", "wind_swaths"} /\ op'.wind_speed \notin {34, 50, 64})
          => (ret'.status = "raise" /\ ~ret'.read /\ store' = store)]_vars

(* wind_swaths(40) was refused by a store that holds a table and a         *)
(* linestring cache.                                                       *)
InvalidWindSpeedRefused ==
    /\ pc = "store"
    /\ op.name = "wind_swaths" /\ op.wind_speed = 40
    /\ ret.status = "raise"
    /\ store.has_linestrings /\ store.unfiltered_data # <<>>

(* C9: an access to unfiltered_data that finds the configuration changed   *)
(* reads the deck again and stores the table that the current              *)
(* configuration determines (the table a rebuild stores when nothing is    *)
(* left over from earlier calls; the velocity columns aside); after the    *)
(* access the remembered configuration is the current one; and an access   *)
(* that finds the configuration unchanged does not read the deck.          *)
RebuiltExactlyOnChange ==
    [][(op'.name = "unfiltered_data" /\ ret'.status = "ok")
          => LET before == EvalConfiguration(store)
                 after == EvalConfiguration(store')
                 changed == Configuration(before) # store.previous_configuration
                 derived ==
                     Rebuild([after EXCEPT !.advisories_to_remove = <<>>],
                             Configuration(after)).unfiltered_data
                 columns(df) ==
                     [i \in 1..Len(df) |->
                         [df[i] EXCEPT !.speed = NaNSpeed, !.direction = NaN]]
             IN  /\ changed => /\ ret'.read
                               /\ columns(store'.unfiltered_data) = columns(derived)
                 /\ store'.previous_configuration = Configuration(after)
                 /\ ~changed => ~ret'.read]_vars

(* C10: linestrings returns the linestrings of the tracks of the current   *)
(* table, and distances the lengths of those linestrings, whatever was     *)
(* called since the configuration changed: never a value of an older       *)
(* configuration.                                                          *)
CachesFollowConfiguration ==
    [][/\ (op'.name = "linestrings" /\ ret'.status = "ok")
              => store'.linestrings = Linestrings(separate_tracks(View(store')))
       /\ (op'.name = "distances" /\ ret'.status = "ok")
              => store'.distances
                     = Distances(Linestrings(separate_tracks(View(store'))))]_vars

(* C15: a configuration setter that is given an invalid value (an          *)
(* rmw_fill that is no member of RMWFillMethod, an advisory that is none   *)
(* of the six, a file deck other than a, b, f or None) raises and leaves   *)
(* the configuration as it was.                                            *)
SettersValidate ==
    [][((\/ op'.name = "rmw_fill" /\ op'.arg[1] \notin RMWFillMethod
         \/ op'.name = "advisories"
                /\ \E i \in 1..Len(op'.arg) : op'.arg[i] \notin Range(ATCF_Advisory)
         \/ op'.name = "file_deck" /\ op'.arg[1] \notin {None, "a", "b", "f"})
          => (/\ ret'.status = "raise"
              /\ Configuration(store') = Configuration(store)))]_vars

(* C11: in every table the store has built from the reader, every record  *)
(* has a track_start_time; all BEST records share one, the earliest BEST   *)
(* valid time; and every other record has datetime = track_start_time +    *)
(* forecast_hours.                                                         *)
TrackStartTimes ==
    (pc = "store" /\ store.has_data) =>
        LET table == store.unfiltered_data
            best == {i \in 1..Len(table) : table[i].advisory = "BEST"}
        IN  \A i \in 1..Len(table) :
                /\ table[i].track_start_time # NaN
                /\ i \in best =>
                       table[i].track_start_time
                           = SetMin({table[j].datetime : j \in best})
                /\ i \notin best =>
                       table[i].datetime
                           = table[i].track_start_time + table[i].forecast_hours

(* C12: the table of the store is sorted by (valid datetime, advisory).    *)
TableSorted ==
    (pc = "store" /\ store.has_data) =>
        LET table == store.unfiltered_data
        IN  \A i \in 1..Len(table) - 1 :
                \/ table[i].datetime < table[i + 1].datetime
                \/ /\ table[i].datetime = table[i + 1].datetime
                   /\ AdvisoryRank(table[i].advisory)
                          <= AdvisoryRank(table[i + 1].advisory)

(* C25: after a successful rebuild the table of a store that asked for     *)
(* OFCL and not for CARQ holds no CARQ record, the list of advisories to   *)
(* remove is empty, and every advisory the store asked for, and the deck   *)
(* has records of, has records in the table.                               *)
OnlyPendingRemoved ==
    (pc = "store" /\ ret.read /\ ret.status = "ok") =>
        LET asked == Range(AdvisoryValues(store.advisories))
            atcf_file == IF ret.read_args[1] # None THEN FileDeck(ret.read_args[1])
                         ELSE Deck(ret.read_args[2], ret.read_args[3])
        IN  /\ ("OFCL" \in asked /\ "CARQ" \notin asked)
                   => ~HasAdvisory(store.unfiltered_data, "CARQ")
            /\ store.advisories_to_remove = <<>>
            /\ \A advisory \in asked :
                   HasAdvisory(atcf_file, advisory)
                       => HasAdvisory(store.unfiltered_data, advisory)

(* C27: the value distances returns has the (advisory, cycle) keys of the  *)
(* value linestrings returns at the same moment, and under each key the    *)
(* geodesic length of the linestring under that key.                       *)
DistancesOfLinestrings ==
    (pc = "store" /\ op.name = "distances" /\ ret.status = "ok") =>
        \A s \in {GetLinestrings(store)} :
            ~s.raised => store.distances = Distances(s.linestrings)

-----------------------------------------------------------------------------
(* The time window of a store: after construction the window and the       *)
(* forecast time are set and the view is taken, in any order.  out is the  *)
(* data frame that data returned.                                          *)

MaxWindowTime == 2

WindowTimes == 0..MaxWindowTime

InitWindow ==
    /\ \E storm \in {"AL01", "AL05"}, file_deck \in {"a", "b"},
          advisories \in {<<>>, <<"OFCL", "CARQ">>} :
           \E s \in {Construct(storm, file_deck, advisories, "none")} :
               /\ ~s.raised
               /\ store = [s EXCEPT !.read = FALSE, !.read_args = <<>>]
               /\ op = [name |-> "VortexTrack", time |-> NaN]
               /\ ret = [status |-> "ok", read |-> s.read,
                         read_args |-> s.read_args]
    /\ data = <<>>
    /\ arg = 0
    /\ tracks = <<>>
    /\ out = <<>>
    /\ pc = "window"

(* The store, the outcome and the data frame that a call leaves. *)
Exposes(name, time, after) ==
    \E s \in {after} :
        /\ pc = "window"
        /\ store' = [s EXCEPT !.raised = FALSE, !.read = FALSE, !.read_args = <<>>]
        /\ op' = [name |-> name, time |-> time]
        /\ ret' = [status |-> IF s.raised THEN "raise" ELSE "ok",
                   read |-> s.read, read_args |-> s.read_args]
        /\ out' = IF name = "data" /\ ~s.raised THEN View(s) ELSE <<>>
        /\ UNCHANGED <<data, arg, tracks, pc>>

ChangeStartDate ==
    \E start_date \in WindowTimes :
        Exposes("start_date", start_date, SetStartDate(store, start_date))

ChangeEndDate ==
    \E end_date \in WindowTimes :
        Exposes("end_date", end_date, SetEndDate(store, end_date))

ChangeForecastTime ==
    \E forecast_time \in {NaN, 0, 1} :
        Exposes("forecast_time", forecast_time,
                SetForecastTime(store, forecast_time))

TakeView == Exposes("data", NaN, GetUnfilteredData(store))

TakeLinestrings == Exposes("linestrings", NaN, GetLinestrings(store))

NextWindow ==
    \/ ChangeStartDate \/ ChangeEndDate \/ ChangeForecastTime
    \/ TakeView \/ TakeLinestrings

SpecWindow == InitWindow /\ [][NextWindow]_vars

(* C13: data returns exactly the records of the unfiltered table, in its   *)
(* order, with start_date <= datetime <= end_date and, when forecast_time  *)
(* is set, track_start_time = forecast_time; and taking the view of a      *)
(* store with an unchanged configuration leaves the unfiltered table as it *)
(* was.                                                                    *)
ViewIsWindow ==
    [][op'.name = "data" =>
          /\ ret'.status = "ok"
          /\ store'.unfiltered_data = store.unfiltered_data
          /\ out' = SelectSeq(store.unfiltered_data,
                              LAMBDA r :
                                  /\ store.start_date <= r.datetime
                                  /\ r.datetime <= store.end_date
                                  /\ store.forecast_time = NaN
                                         \/ r.track_start_time
                                                = store.forecast_time)]_vars

(* The view of an advisory table has been taken with a forecast time set   *)
(* and a window that ends before the last record: it holds a record at     *)
(* end_date and leaves out records of the other cycle and later records.   *)
ViewTaken ==
    /\ pc = "window" /\ op.name = "data"
    /\ store.forecast_time = 0
    /\ out # <<>>
    /\ \E i \in 1..Len(out) : out[i].datetime = store.end_date
    /\ \E i \in 1..Len(store.unfiltered_data) :
           store.unfiltered_data[i].datetime > store.end_date
    /\ \E i \in 1..Len(store.unfiltered_data) :
           store.unfiltered_data[i].track_start_time # 0

(* C23: linestrings returns the linestrings of the tracks of the records   *)
(* in the window and of the forecast time the store has when it is called, *)
(* whatever window was in use at an earlier call.                          *)
LinestringsOfView ==
    [][(op'.name = "linestrings" /\ ret'.status = "ok") =>
          store'.linestrings = Linestrings(separate_tracks(View(store')))]_vars

(* C28: the view of a store constructed without start_date, end_date and  *)
(* forecast_time holds every record of the unfiltered table.               *)
DefaultViewIsWhole ==
    [][(op.name = "VortexTrack" /\ op'.name = "data") =>
          (ret'.status = "ok" /\ out' = store'.unfiltered_data)]_vars

-----------------------------------------------------------------------------
(* The forecast time of a store whose file deck changes.                   *)

ChangeDeck ==
    \E file_deck \in {None, "a", "b", "f"} :
        Exposes("file_deck", NaN, SetFileDeck(store, file_deck))

NextForecastTime == ChangeForecastTime \/ ChangeDeck \/ TakeView

SpecForecastTime == InitWindow /\ [][NextForecastTime]_vars

(* C24: setting forecast_time to a time while the file deck is not the     *)
(* advisory deck raises and leaves the stored forecast_time as it was;     *)
(* setting it to null succeeds and clears it; under the advisory deck      *)
(* every time is stored.                                                   *)
ForecastTimeNeedsAdvisoryDeck ==
    [][op'.name = "forecast_time" =>
          IF op'.time # NaN /\ store.file_deck # "a"
          THEN ret'.status = "raise" /\ store'.forecast_time = store.forecast_time
          ELSE ret'.status = "ok" /\ store'.forecast_time = op'.time]_vars

(* A forecast time set under the advisory deck has been kept by a refused  *)
(* assignment under the best-track deck.                                   *)
ForecastTimeRefused ==
    /\ op.name = "forecast_time" /\ op.time = 1
    /\ ret.status = "raise"
    /\ store.file_deck = "b"
    /\ store.forecast_time = 0

-----------------------------------------------------------------------------
(* The Holland B relation applied to a wind speed and two pressures: data  *)
(* is <<Vmax, Pbg, Pc>>, out the value the last call returned.             *)

MaxWind == 4
MaxPressure == 5

InitHolland ==
    /\ data \in (0..MaxWind) \X (1..MaxPressure) \X (1..MaxPressure)
    /\ arg = "-"
    /\ tracks = <<>>
    /\ out = <<>>
    /\ pc = "start"
    /\ store = IdleStore
    /\ op = "-"
    /\ ret = "-"

HollandB ==
    /\ pc = "start"
    /\ out' = holland_b(ToFraction(data[1]), ToFraction(data[2]),
                        ToFraction(data[3]))
    /\ pc' = "holland_b"
    /\ UNCHANGED <<data, arg, tracks, storeVars>>

CentralPressure ==
    /\ pc = "holland_b"
    /\ out' = central_pressure(ToFraction(data[1]), ToFraction(data[2]), out)
    /\ pc' = "central_pressure"
    /\ UNCHANGED <<data, arg, tracks, storeVars>>

NextHolland == HollandB \/ CentralPressure

SpecHolland == InitHolland /\ [][NextHolland]_vars

-----------------------------------------------------------------------------
(* movingmean, the smoothing of the regression policy with smoothing,      *)
(* applied to one OFCL track whose RMW the regression has filled: data is  *)
(* the track, out the track it returns (RMW as fractions).                 *)

(* a < b on floats: a comparison with NaN does not hold. *)
FracLess(a, b) ==
    /\ ~IsNaN(a) /\ ~IsNaN(b)
    /\ IF a[2] = 0 \/ b[2] = 0
       THEN a # b /\ (a = <<-1, 0>> \/ b = <<1, 0>>)
       ELSE a[1] * b[2] < b[1] * a[2]

(* dff.loc[dff["forecast_hours"].drop_duplicates().index] *)
FirstOfEachHour(dff) ==
    SelectSeq(dff, LAMBDA r :
        \A j \in 1..Len(dff) :
            dff[j].forecast_hours = r.forecast_hours => dff[j].idx >= r.idx)

AddedHours == {60, 84, 108}

(* numpy.interp(x, xp, fp) for increasing xp: linear between the           *)
(* neighbours, the end values outside.                                     *)
Interp(x, xp, fp) ==
    LET n == Len(xp)
    IN  IF x <= xp[1] THEN ToFraction(fp[1])
        ELSE IF x >= xp[n] THEN ToFraction(fp[n])
        ELSE LET k == CHOOSE j \in 1..n - 1 : xp[j] <= x /\ x < xp[j + 1]
             IN  FracAdd(ToFraction(fp[k]),
                         Fraction((fp[k + 1] - fp[k]) * (x - xp[k]),
                                  xp[k + 1] - xp[k]))

(* The centered rolling mean over 24 hours and 1 minute: the mean of the   *)
(* grid values at most 12 hours away.                                      *)
HalfWindow == 12

RECURSIVE SetToSeq(_)
SetToSeq(S) ==
    IF S = {} THEN <<>>
    ELSE LET x == CHOOSE y \in S : \A z \in S : y <= z
         IN  <<x>> \o SetToSeq(S \ {x})

(* rmw_rolling: the rolled RMW of every hour of the grid. *)
rmw_rolling(dff) ==
    LET df_temp == FirstOfEachHour(dff)
        xp == Column(df_temp, "forecast_hours")
        fp == Column(df_temp, "radius_of_maximum_winds")
        fcsthrs_12hr == Range(xp) \cup AddedHours
    IN  [h \in fcsthrs_12hr |->
            LET near == SetToSeq({g \in fcsthrs_12hr :
                                     g - h <= HalfWindow /\ h - g <= HalfWindow})
            IN  NanMean([k \in 1..Len(near) |-> Interp(near[k], xp, fp)])]

(* isotach_radii.loc[valid_index].iloc[-1].max(), with 0 taken as missing. *)
max_isotach_radii(row) ==
    LET radii == {row[quadrant_names[k]] : k \in 1..4} \ {0, NaN}
    IN  IF radii = {} THEN NaN ELSE CHOOSE r \in radii : \A q \in radii : q <= r

(* The RMW movingmean leaves in the rows of one valid time, given the      *)
(* rolled value of that time.                                              *)
SmoothedRMW(valid_rows, rmw) ==
    LET last == valid_rows[Len(valid_rows)]
        maxr == ToFraction(max_isotach_radii(last))
        written == IF FracLess(rmw, maxr) \/ IsNaN(maxr) THEN rmw
                   ELSE ToFraction(last.radius_of_maximum_winds)
    IN  IF FracLess(maxr, written)
        THEN FracDiv(FracMul(maxr, ToFraction(last.isotach_radius)),
                     ToFraction(last.max_sustained_wind_speed))
        ELSE written

movingmean(dff) ==
    LET origin == FirstOfEachHour(dff)[1].datetime
        rolled == rmw_rolling(dff)
    IN  [i \in 1..Len(dff) |->
            LET valid_rows == SelectSeq(dff, LAMBDA r : r.datetime = dff[i].datetime)
                hour == dff[i].datetime - origin
            IN  [dff[i] EXCEPT !.radius_of_maximum_winds =
                    IF hour \notin DOMAIN rolled \/ valid_rows[1].forecast_hours = 0
                    THEN ToFraction(dff[i].radius_of_maximum_winds)
                    ELSE SmoothedRMW(valid_rows, rolled[hour])]]

LeadHourList == <<0, 12, 24, 72>>

SmoothRow(h, rmw, radius) ==
    [IsotachRow("OFCL", 0, h, 34, radius, NaN, 0, radius) EXCEPT
        !.max_sustained_wind_speed = 40, !.radius_of_maximum_winds = rmw]

InitSmoothing ==
    /\ \E pick \in [1..Len(LeadHourList) ->
                       [present : BOOLEAN, rmw : {10, 30}, radius : {NaN, 20}]] :
           /\ \E k \in 1..Len(LeadHourList) : pick[k].present
           /\ data = WithIndex(
                  SelectSeq([k \in 1..Len(LeadHourList) |->
                                 IF pick[k].present
                                 THEN SmoothRow(LeadHourList[k], pick[k].rmw,
                                                pick[k].radius)
                                 ELSE BlankRow],
                            LAMBDA r : r.advisory = "OFCL"),
                  FALSE)
    /\ arg = "-"
    /\ tracks = <<>>
    /\ out = <<>>
    /\ pc = "start"
    /\ store = IdleStore
    /\ op = "-"
    /\ ret = "-"

MovingMean ==
    /\ pc = "start"
    /\ out' = movingmean(data)
    /\ pc' = "smoothed"
    /\ UNCHANGED <<data, arg, tracks, storeVars>>

NextSmoothing == MovingMean

SpecSmoothing == InitSmoothing /\ [][NextSmoothing]_vars

(* C21: a record at a smoothed valid time and a lead hour other than 0     *)
(* gets the rolled RMW of that time, unless the rolled value is more than  *)
(* the largest isotach radius of the record: then it gets that radius      *)
(* times the isotach wind speed over the peak wind speed; a record at lead *)
(* hour 0 keeps its RMW.                                                   *)
RolledOrRescaled ==
    pc = "smoothed" =>
        \A i \in 1..Len(data) :
            LET hour == data[i].datetime - data[1].datetime
                rolled == rmw_rolling(data)
                maxr == ToFraction(max_isotach_radii(data[i]))
            IN  out[i].radius_of_maximum_winds =
                    IF data[i].forecast_hours = 0
                    THEN ToFraction(data[i].radius_of_maximum_winds)
                    ELSE IF hour \notin DOMAIN rolled
                    THEN out[i].radius_of_maximum_winds
                    ELSE IF FracLess(maxr, rolled[hour])
                    THEN FracDiv(FracMul(maxr, ToFraction(data[i].isotach_radius)),
                                 ToFraction(data[i].max_sustained_wind_speed))
                    ELSE rolled[hour]

-----------------------------------------------------------------------------
(* In-place edits of the table of a store: unfiltered_data returns the     *)
(* data frame the store holds, and the caller moves some of its records    *)
(* (longitude and geometry) before the table is accessed again.            *)

EditLongitudes == {0, 4}

InitEdit ==
    /\ \E storm \in StormIds :
           \E s \in {GetUnfilteredData(Construct(storm, "b", <<>>, "none"))} :
               /\ ~s.raised
               /\ store = [s EXCEPT !.read = FALSE, !.read_args = <<>>]
               /\ op = [name |-> "unfiltered_data", time |-> NaN]
               /\ ret = [status |-> "ok", read |-> s.read,
                         read_args |-> s.read_args]
    /\ data = <<>>
    /\ arg = 0
    /\ tracks = <<>>
    /\ out = <<>>
    /\ pc = "window"

(* unfiltered_data.loc[rows, ["longitude", "geometry"]] = longitude *)
EditPositions ==
    \E rows \in SUBSET (1..Len(store.unfiltered_data)), longitude \in EditLongitudes :
        /\ rows # {}
        /\ Exposes("edit", NaN,
                   [store EXCEPT !.unfiltered_data =
                       [i \in 1..Len(store.unfiltered_data) |->
                           IF i \in rows
                           THEN [store.unfiltered_data[i] EXCEPT
                                    !.longitude = longitude,
                                    !.geometry = longitude]
                           ELSE store.unfiltered_data[i]]])

AccessTable == Exposes("unfiltered_data", NaN, GetUnfilteredData(store))

NextEdit == EditPositions \/ AccessTable

SpecEdit == InitEdit /\ [][NextEdit]_vars

(* C22: the access that follows an edit of the positions of some records   *)
(* leaves every record with the speed and the direction the velocity       *)
(* estimator computes over the whole table with the edited positions, and  *)
(* with a speed that is not null.                                          *)
EditedVelocity ==
    [][(op.name = "edit" /\ op'.name = "unfiltered_data") =>
          /\ ret'.status = "ok"
          /\ \A i \in 1..Len(store.unfiltered_data) :
                 /\ store'.unfiltered_data[i].speed
                        = compute_velocity(store.unfiltered_data)[i].speed
                 /\ store'.unfiltered_data[i].direction
                        = compute_velocity(store.unfiltered_data)[i].direction
                 /\ ~IsNaN(store'.unfiltered_data[i].speed)]_vars

-----------------------------------------------------------------------------
(* atcf(): the view written as ATCF columns. The pressure columns are       *)
(* followed here; every other column is formatted on its own.               *)

integer_na_value == -99999

(* numpy.round(x, 0): to the nearest whole number, a half to the even one. *)
Round(a) ==
    LET floor == IF a[1] >= 0 THEN a[1] \div a[2]
                 ELSE -((-a[1] + a[2] - 1) \div a[2])
        twice == 2 * (a[1] - floor * a[2])
    IN  IF twice < a[2] THEN floor
        ELSE IF twice > a[2] THEN floor + 1
        ELSE IF floor % 2 = 0 THEN floor ELSE floor + 1

(* A float column as integers: a null becomes integer_na_value. *)
IntegerColumn(a) == IF IsNaN(a) THEN integer_na_value ELSE Round(a)

RECURSIVE Digits(_)
Digits(n) ==
    LET last == <<SubSeq(<<"0", "1", "2", "3", "4", "5", "6", "7", "8", "9">>,
                         (n % 10) + 1, (n % 10) + 1)[1]>>
    IN  IF n < 10 THEN last ELSE Digits(n \div 10) \o last

(* astype("string") of an integer: a string is a sequence of characters. *)
Str(n) == IF n < 0 THEN <<"-">> \o Digits(-n) ELSE Digits(n)

(* str.pad(width): spaces on the left up to the width. *)
RECURSIVE Pad(_, _)
Pad(s, width) == IF Len(s) >= width THEN s ELSE Pad(<<" ">> \o s, width)

(* str.replace(pattern, ""): every occurrence of the pattern is removed. *)
RECURSIVE Remove(_, _)
Remove(s, pattern) ==
    IF Len(s) < Len(pattern) THEN s
    ELSE IF SubSeq(s, 1, Len(pattern)) = pattern
         THEN Remove(SubSeq(s, Len(pattern) + 1, Len(s)), pattern)
         ELSE <<s[1]>> \o Remove(Tail(s), pattern)

PressureString(n) == Remove(Pad(Str(n), 5), Str(integer_na_value))

(* The mutant: the filled background pressure is 1013 for every row. *)
background_pressure_1013(central, background) ==
    IF background <= central THEN 1013
    ELSE background

(* The background pressure of a row, both columns being integers. *)
background_pressure_above(central, background) ==
    IF background <= central
    THEN IF central >= 1013 THEN central + 1 ELSE 1013
    ELSE background

atcf(dff, advisory) ==
    LET kept == IF advisory = None THEN dff
                ELSE SelectSeq(dff, LAMBDA r : r.advisory = advisory)
        line(r) ==
            LET central == IntegerColumn(r.central_pressure)
                background == IntegerColumn(ToFraction(r.background_pressure))
            IN  [idx |-> r.idx, advisory |-> r.advisory,
                 forecast_hours |-> r.forecast_hours,
                 datetime |-> IF r.advisory # "BEST" THEN r.track_start_time
                              ELSE r.datetime,
                 central_pressure |-> PressureString(central),
                 background_pressure |->
                     PressureString(background_pressure_above(central,
                                                              background))]
    IN  [k \in 1..Len(kept) |-> line(kept[k])]

MaxAtcfRows == 2

CentralPressures == {<<0, 0>>, <<990, 1>>, <<2025, 2>>, <<2027, 2>>, <<1020, 1>>}

BackgroundPressures == {NaN, 1000, 1013, 1021}

AtcfRow(k, central, background) ==
    [(IF k = 1 THEN BestRow(0) ELSE ForecastRow("OFCL", 0, k)) EXCEPT
        !.central_pressure = central, !.background_pressure = background]

InitAtcf ==
    /\ \E n \in 1..MaxAtcfRows :
           \E pick \in [1..n -> CentralPressures \X BackgroundPressures] :
               data = WithIndex([k \in 1..n |-> AtcfRow(k, pick[k][1], pick[k][2])],
                                FALSE)
    /\ arg \in {None, "OFCL"}
    /\ tracks = <<>>
    /\ out = <<>>
    /\ pc = "start"
    /\ store = IdleStore
    /\ op = "-"
    /\ ret = "-"

Atcf ==
    /\ pc = "start"
    /\ out' = atcf(data, arg)
    /\ pc' = "atcf"
    /\ UNCHANGED <<data, arg, tracks, storeVars>>

NextAtcf == Atcf

SpecAtcf == InitAtcf /\ [][NextAtcf]_vars

(* The number a column string stands for. *)
RECURSIVE Number(_)
Number(s) ==
    IF s[1] = " " THEN Number(Tail(s))
    ELSE IF s[1] = "-" THEN -Number(Tail(s))
    ELSE LET digit == CHOOSE d \in 0..9 : Digits(d) = <<s[Len(s)]>>
         IN  IF Len(s) = 1 THEN digit
             ELSE 10 * Number(SubSeq(s, 1, Len(s) - 1)) + digit

(* The row of the view a line of atcf() was written from. *)
ViewRow(line) == CHOOSE r \in Range(data) : r.idx = line.idx

(* C29: in the table atcf() returns, every row with a central pressure has *)
(* a background pressure strictly above it: a background pressure of the   *)
(* view that is missing or not above the central pressure is 1013, or the  *)
(* central pressure + 1 when the central pressure is 1013 or more, and a   *)
(* background pressure above the central pressure is kept.                  *)
BackgroundAboveCentral ==
    pc = "atcf" =>
        \A k \in 1..Len(out) :
            out[k].central_pressure # <<>> =>
                LET central == Number(out[k].central_pressure)
                    background == Number(out[k].background_pressure)
                    before == ViewRow(out[k]).background_pressure
                IN  /\ background > central
                    /\ background =
                           IF before = NaN \/ before <= central
                           THEN (IF central >= 1013 THEN central + 1 ELSE 1013)
                           ELSE before

(* atcf() has written a row with a missing background pressure under a     *)
(* central pressure below 1013 and a row with a background pressure of     *)
(* 1013 under a central pressure of 1020.                                   *)
BackgroundReplaced ==
    /\ pc = "atcf"
    /\ Len(out) = 2
    /\ ViewRow(out[1]).background_pressure = NaN
    /\ out[1].central_pressure = <<" ", " ", "9", "9", "0">>
    /\ out[1].background_pressure = <<" ", "1", "0", "1", "3">>
    /\ ViewRow(out[2]).background_pressure = 1013
    /\ out[2].central_pressure = <<" ", "1", "0", "2", "0">>
    /\ out[2].background_pressure = <<" ", "1", "0", "2", "1">>

-----------------------------------------------------------------------------
(* Copies of a store.  __copy__ constructs a store from a copy of the      *)
(* table, the window, the file deck and the advisories of the original;    *)
(* __eq__ compares the views.  data is the view of the original and out    *)
(* the view of the copy, both taken after the copy was made.               *)

(* VortexTrack(storm = table, start_date, end_date, file_deck, advisories) *)
(* for a data frame: rmw_fill and forecast_time have their defaults.       *)
ConstructFromTable(table, start_date, end_date, file_deck, advisories) ==
    LET s1 == [NewStore EXCEPT !.has_data = TRUE, !.unfiltered_data = table]
        s2 == IF advisories = <<>> THEN SetAdvisoriesNone(s1)
              ELSE SetAdvisories(s1, advisories)
        s3 == SetRmwFill(SetFileDeck(s2, file_deck), "regression_penny_2023")
        Dates(s4) ==
            CHOOSE after \in
                {IF s6.raised THEN s6
                 ELSE CHOOSE last \in
                          {IF s7.raised THEN s7 ELSE SetForecastTime(s7, NaN) :
                              s7 \in {SetEndDate(s6, end_date)}} : TRUE :
                    s6 \in {SetStartDate(
                                [s4 EXCEPT !.previous_configuration =
                                              Configuration(s4)],
                                start_date)}} : TRUE
    IN  CHOOSE after \in {Dates(s4) : s4 \in {EvalConfiguration(s3)}} : TRUE

(* __copy__ of a store whose table has been read. *)
Copy(s) ==
    CHOOSE after \in
        {IF instance.raised \/ s.filename = None THEN instance
         ELSE SetFilename(instance, s.filename) :
            instance \in {ConstructFromTable(s.unfiltered_data, s.start_date,
                                             s.end_date, s.file_deck,
                                             s.advisories)}} : TRUE

InitCopy ==
    /\ \E storm \in {"AL01", "AL05"}, file_deck \in {"a", "b"},
          rmw_fill \in {"none", "persistent"} :
           \E s \in {Construct(storm, file_deck, <<>>, rmw_fill)} :
               /\ ~s.raised
               /\ store = [s EXCEPT !.read = FALSE, !.read_args = <<>>]
               /\ op = [name |-> "VortexTrack", time |-> NaN]
               /\ ret = [status |-> "ok", read |-> s.read,
                         read_args |-> s.read_args]
    /\ data = <<>>
    /\ arg = 0
    /\ tracks = <<>>
    /\ out = <<>>
    /\ pc = "window"

(* copy(store) == store: the copy is made and the two views are taken. *)
TakeCopy ==
    \E self \in {GetUnfilteredData(store)} :
        \E instance \in {IF self.raised THEN self
                         ELSE GetUnfilteredData(Copy(self))} :
            /\ pc = "window"
            /\ store' = [self EXCEPT !.raised = FALSE, !.read = FALSE,
                                     !.read_args = <<>>]
            /\ op' = [name |-> "__copy__", time |-> NaN]
            /\ ret' = [status |-> IF instance.raised THEN "raise" ELSE "ok",
                       read |-> instance.read, read_args |-> instance.read_args]
            /\ data' = IF instance.raised THEN <<>> ELSE View(self)
            /\ out' = IF instance.raised THEN <<>> ELSE View(instance)
            /\ UNCHANGED <<arg, tracks, pc>>

NextCopy ==
    \/ ChangeStartDate \/ ChangeEndDate \/ ChangeForecastTime \/ TakeCopy

SpecCopy == InitCopy /\ [][NextCopy]_vars

(* C30: a copy of a store is equal to the store: the view of the copy has  *)
(* the rows of the view of the original, whatever the forecast time and    *)
(* the RMW policy of the original.                                         *)
CopyIsEqual ==
    [][op'.name = "__copy__" => (ret'.status = "ok" /\ out' = data')]_vars

====
